---- MODULE Spec2Model ----
(***************************************************************************)
(* Napkin: the formula evaluation and dependency-tracking engine           *)
(* (src/src/utils/formula.js, src/src/utils/coords.js, src/src/utils/      *)
(* grid.js).                                                               *)
(*                                                                         *)
(* JavaScript strings are modelled as sequences of one-character strings,  *)
(* so that formatting and parsing (coordKey, cellRefToXY, extractRefs,     *)
(* parseFloat, String) are computed character by character.                *)
(* A JavaScript object used as a map is a function with a finite domain;   *)
(* a JavaScript Set or the key list of an object, whose iteration order    *)
(* the code relies on, is a duplicate-free sequence in insertion order.    *)
(***************************************************************************)
EXTENDS Integers, Sequences, FiniteSets, TLC

\* ------------------------------------------------------------------------
\* Characters
\* ------------------------------------------------------------------------
UpperSeq == <<"A","B","C","D","E","F","G","H","I","J","K","L","M",
              "N","O","P","Q","R","S","T","U","V","W","X","Y","Z">>
LowerSeq == <<"a","b","c","d","e","f","g","h","i","j","k","l","m",
              "n","o","p","q","r","s","t","u","v","w","x","y","z">>
DigitSeq == <<"0","1","2","3","4","5","6","7","8","9">>

Range(s) == { s[i] : i \in 1..Len(s) }

IsUpper(c) == c \in Range(UpperSeq)
IsLower(c) == c \in Range(LowerSeq)
IsDigit(c) == c \in Range(DigitSeq)
IsSpace(c) == c = " "
\* \w of a JavaScript regular expression: [A-Za-z0-9_]
IsWordChar(c) == IsUpper(c) \/ IsLower(c) \/ IsDigit(c) \/ c = "_"

\* charCodeAt(i) - 65 for an uppercase letter: 0 for A .. 25 for Z
UpperIndex(c) == (CHOOSE i \in 1..26 : UpperSeq[i] = c) - 1
\* the value of a decimal digit
DigitVal(c) == (CHOOSE i \in 1..10 : DigitSeq[i] = c) - 1

\* the "no value" results of the code: null of cellRefToXY, NaN of parseFloat
Null == [null |-> TRUE]

\* ------------------------------------------------------------------------
\* Number <-> string conversions
\* ------------------------------------------------------------------------
RECURSIVE NatToStr(_)
\* decimal digits of a natural number, most significant first
NatToStr(n) ==
    IF n < 10 THEN <<DigitSeq[n + 1]>>
    ELSE NatToStr(n \div 10) \o <<DigitSeq[(n % 10) + 1]>>

\* String(n) / `${n}` of an integer
IntToStr(n) == IF n < 0 THEN <<"-">> \o NatToStr(0 - n) ELSE NatToStr(n)

RECURSIVE DigitsToNat(_, _)
\* parseInt(digits, 10) of a digit string, acc the value read so far
DigitsToNat(s, acc) ==
    IF s = <<>> THEN acc
    ELSE DigitsToNat(Tail(s), acc * 10 + DigitVal(Head(s)))

\* ------------------------------------------------------------------------
\* coords.js
\* ------------------------------------------------------------------------
GRID_MIN == -14
GRID_MAX == 15

\* coordKey without the separator between the two numbers
coordKey_NoSeparator(x, y) == IntToStr(x) \o IntToStr(y)

coordKey(x, y) == IntToStr(x) \o <<",">> \o IntToStr(y)

RECURSIVE xToColumnLettersLoop(_, _)
\* the while loop of xToColumnLetters: n is 1-indexed, result grows leftwards
xToColumnLettersLoop(n, result) ==
    IF n > 0
    THEN xToColumnLettersLoop((n - 1) \div 26,
                              <<UpperSeq[((n - 1) % 26) + 1]>> \o result)
    ELSE result

\* xToColumnLetters without the shift to 1-indexed
xToColumnLetters_NoShift(x) == xToColumnLettersLoop(x, <<>>)

xToColumnLetters(x) == xToColumnLettersLoop(x + 1, <<>>)

RECURSIVE columnLettersLoop(_, _)
columnLettersLoop(letters, n) ==
    IF letters = <<>> THEN n
    ELSE columnLettersLoop(Tail(letters), n * 26 + (UpperIndex(Head(letters)) + 1))

\* columnLettersToX without the return to 0-indexed
columnLettersToX_OneBased(letters) == columnLettersLoop(letters, 0)

columnLettersToX(letters) == columnLettersLoop(letters, 0) - 1

xyToCellRef(x, y) ==
    LET colIndex == x - GRID_MIN
        rowIndex == GRID_MAX - y + 1
    IN  xToColumnLetters(colIndex) \o IntToStr(rowIndex)

RECURSIVE TrimLeft(_)
TrimLeft(s) == IF s # <<>> /\ IsSpace(Head(s)) THEN TrimLeft(Tail(s)) ELSE s

RECURSIVE TrimRight(_)
TrimRight(s) ==
    IF s # <<>> /\ IsSpace(s[Len(s)]) THEN TrimRight(SubSeq(s, 1, Len(s) - 1)) ELSE s

\* String.prototype.trim
Trim(s) == TrimRight(TrimLeft(s))

RECURSIVE UpperRunLen(_, _)
\* length of the maximal run of uppercase letters of s that starts at index i
UpperRunLen(s, i) ==
    IF i <= Len(s) /\ IsUpper(s[i]) THEN 1 + UpperRunLen(s, i + 1) ELSE 0

RECURSIVE DigitRunLen(_, _)
\* length of the maximal run of digits of s that starts at index i
DigitRunLen(s, i) ==
    IF i <= Len(s) /\ IsDigit(s[i]) THEN 1 + DigitRunLen(s, i + 1) ELSE 0

\* the coordinate of the text t = letters (nl of them) then digits (nd of them)
refParts(t, nl, nd) ==
    IF nl = 0 \/ nd = 0 \/ nl + nd # Len(t) \/ t[nl + 1] = "0" THEN Null
    ELSE [x |-> GRID_MIN + columnLettersToX(SubSeq(t, 1, nl)),
          y |-> GRID_MAX - (DigitsToNat(SubSeq(t, nl + 1, Len(t)), 0) - 1)]

\* /^([A-Z]+)([1-9][0-9]*)$/ on t, the leading letter run being nl long
splitRef(t, nl) == refParts(t, nl, DigitRunLen(t, nl + 1))

matchRef(t) == IF t = <<>> THEN Null ELSE splitRef(t, UpperRunLen(t, 1))

\* cellRefToXY(ref) for a string ref: Null, or the record [x, y].
\* The match is /^([A-Z]+)([1-9][0-9]*)$/ on the trimmed text; no bounds
\* check is made on the result.
cellRefToXY(ref) == matchRef(Trim(ref))

\* A JavaScript value as cellRefToXY looks at it: typeof, truthiness, and the
\* text when it is a string
JsString(s) == [typeof |-> "string", truthy |-> s # <<>>, str |-> s]
JsNull == [typeof |-> "object", truthy |-> FALSE, str |-> <<>>]
JsUndefined == [typeof |-> "undefined", truthy |-> FALSE, str |-> <<>>]
JsNumber(truthy) == [typeof |-> "number", truthy |-> truthy, str |-> <<>>]
JsObject == [typeof |-> "object", truthy |-> TRUE, str |-> <<>>]

\* a TypeError leaves the call
Thrown == [thrown |-> TRUE]

\* cellRefToXY without its first test: ref.trim() of a value that is no string throws
cellRefToXYValue_NoGuard(ref) ==
    IF ref.typeof = "string" THEN cellRefToXY(ref.str) ELSE Thrown

\* cellRefToXY(ref) for any value ref:
\* if (!ref || typeof ref !== 'string') return null, then as for a string
cellRefToXYValue(ref) ==
    IF ~ref.truthy \/ ref.typeof # "string" THEN Null ELSE cellRefToXY(ref.str)

RECURSIVE SplitComma(_, _)
\* key.split(','): the parts of s between the commas, cur the part being read
SplitComma(s, cur) ==
    IF s = <<>> THEN <<cur>>
    ELSE IF Head(s) = "," THEN <<cur>> \o SplitComma(Tail(s), <<>>)
    ELSE SplitComma(Tail(s), Append(cur, Head(s)))

\* the digits of parseInt: nd is the length of the digit run that starts body
parseIntDigits(body, neg, nd) ==
    IF nd = 0 THEN [nan |-> TRUE, val |-> 0]
    ELSE [nan |-> FALSE,
          val |-> IF neg THEN 0 - DigitsToNat(SubSeq(body, 1, nd), 0)
                         ELSE DigitsToNat(SubSeq(body, 1, nd), 0)]

parseIntSigned(t) ==
    IF t # <<>> /\ Head(t) \in {"-", "+"}
    THEN parseIntDigits(Tail(t), Head(t) = "-", DigitRunLen(Tail(t), 1))
    ELSE parseIntDigits(t, FALSE, DigitRunLen(t, 1))

\* parseInt(str, 10): white space, an optional sign, the longest run of
\* digits; [nan |-> TRUE] when there is no digit
parseInt(str) == parseIntSigned(TrimLeft(str))

\* parseInt(parts[i], 10), parts[i] being undefined when there is no such part
parseIntPart(parts, i) ==
    IF i <= Len(parts) THEN parseInt(parts[i]) ELSE [nan |-> TRUE, val |-> 0]

\* the record { x: parseInt(xs, 10), y: parseInt(ys, 10) } of the parts of the key
parsedParts(parts) == [x |-> parseIntPart(parts, 1), y |-> parseIntPart(parts, 2)]

parseCoordKey(key) == parsedParts(SplitComma(key, <<>>))

withinBounds(x, y) == x >= GRID_MIN /\ x <= GRID_MAX /\ y >= GRID_MIN /\ y <= GRID_MAX

\* ------------------------------------------------------------------------
\* JavaScript objects used as maps
\* ------------------------------------------------------------------------
EmptyMap == [k \in {} |-> <<>>]

\* m[k] = v on a copy of m
Put(m, k, v) == (k :> v) @@ m

\* Set.prototype.has on a Set kept in insertion order
InSeq(s, e) == \E i \in 1..Len(s) : s[i] = e

\* Set.prototype.add on a Set kept in insertion order
SetAdd(s, e) == IF InSeq(s, e) THEN s ELSE Append(s, e)

\* ------------------------------------------------------------------------
\* formula.js: extractRefs
\* ------------------------------------------------------------------------
\* One attempt of REF_REGEX = /\b([A-Z]+[1-9][0-9]*)\b/g at index i of s:
\* the length of the match that starts at i, 0 when there is none.
\* [A-Z]+ and [0-9]* are greedy and no shorter alternative can end on a word
\* boundary, so the match is the maximal letter run and the maximal digit run.
\* refMatchEnd without the two word boundaries of the pattern
refMatchEnd_NoBoundary(s, i, nl, nd) ==
    IF nl > 0 /\ nd > 0 /\ s[i + nl] # "0" THEN nl + nd ELSE 0

refMatchEnd(s, i, nl, nd) ==
    IF /\ nl > 0
       /\ nd > 0
       /\ s[i + nl] # "0"
       /\ (i = 1 \/ ~IsWordChar(s[i - 1]))
       /\ (i + nl + nd > Len(s) \/ ~IsWordChar(s[i + nl + nd]))
    THEN nl + nd
    ELSE 0

refMatchDigits(s, i, nl) == refMatchEnd(s, i, nl, DigitRunLen(s, i + nl))

RefMatchLen(s, i) == refMatchDigits(s, i, UpperRunLen(s, i))

RECURSIVE extractRefsLoop(_, _, _)
\* one REF_REGEX.exec at index i: n is the length of the match found there
execStep(s, i, refs, n) ==
    IF n > 0
    THEN extractRefsLoop(s, i + n, SetAdd(refs, SubSeq(s, i, i + n - 1)))
    ELSE extractRefsLoop(s, i + 1, refs)

\* the while loop over REF_REGEX.exec: i is lastIndex + 1, refs the Set so far
extractRefsLoop(s, i, refs) ==
    IF i > Len(s) THEN refs ELSE execStep(s, i, refs, RefMatchLen(s, i))

extractRefs(formula) == extractRefsLoop(formula, 1, <<>>)

\* ------------------------------------------------------------------------
\* parseFloat(String(value).replace(/,/g, '')) and Number.isFinite
\* ------------------------------------------------------------------------
RECURSIVE StripCommas(_)
StripCommas(s) ==
    IF s = <<>> THEN <<>>
    ELSE IF Head(s) = "," THEN StripCommas(Tail(s))
    ELSE <<Head(s)>> \o StripCommas(Tail(s))

InfinityStr == <<"I","n","f","i","n","i","t","y">>

StartsWith(s, p) == Len(s) >= Len(p) /\ SubSeq(s, 1, Len(p)) = p

\* the digits of parseFloat: nd is the length of the digit run that starts body
parseDigits(body, neg, nd) ==
    IF StartsWith(body, InfinityStr) \/ nd = 0
    THEN [fin |-> FALSE, val |-> 0]
    ELSE [fin |-> TRUE,
          val |-> IF neg THEN 0 - DigitsToNat(SubSeq(body, 1, nd), 0)
                         ELSE DigitsToNat(SubSeq(body, 1, nd), 0)]

parseUnsigned(body, neg) == parseDigits(body, neg, DigitRunLen(body, 1))

parseSigned(t) ==
    IF t # <<>> /\ Head(t) \in {"-", "+"}
    THEN parseUnsigned(Tail(t), Head(t) = "-")
    ELSE parseUnsigned(t, FALSE)

\* parseFloat on the texts of this model (no fraction and no exponent part
\* occurs in them): leading white space is skipped, then an optional sign,
\* then either Infinity or the longest run of digits; anything after it is
\* ignored.  Result: [fin |-> TRUE, val |-> n] for a finite number,
\* [fin |-> FALSE] for NaN and for +-Infinity.
parseFloat(str) == parseSigned(TrimLeft(str))

DEFAULT_NUMERIC_VALUE == 0
ERROR_VALUE == <<"#","E","R","R","O","R">>

\* Number.isFinite(numeric) ? numeric : DEFAULT_NUMERIC_VALUE
finiteOrDefault(numeric) == IF numeric.fin THEN numeric.val ELSE DEFAULT_NUMERIC_VALUE

\* the operand a display value contributes to a referencing formula
NumericOf(value) == finiteOrDefault(parseFloat(StripCommas(value)))

\* ------------------------------------------------------------------------
\* math.evaluate(expr, scope) of the mathjs library, on the expression
\* fragment the model's formulas are written in:
\*     expr   ::= term (("+" | "-") term)*
\*     term   ::= factor ("*" factor)*
\*     factor ::= digits | symbol | "-" factor | "+" factor
\* with white space allowed between tokens.  A symbol is looked up in scope;
\* a symbol that is not bound, a missing operand and any other character
\* make mathjs throw.  An empty (or all-blank) expression does not throw:
\* mathjs returns undefined for it.
\* Result: [thrown, undef, val].
\* ------------------------------------------------------------------------
RECURSIVE SkipWs(_, _)
SkipWs(s, i) == IF i <= Len(s) /\ IsSpace(s[i]) THEN SkipWs(s, i + 1) ELSE i

RECURSIVE WordRunLen(_, _)
WordRunLen(s, i) ==
    IF i <= Len(s) /\ IsWordChar(s[i]) THEN 1 + WordRunLen(s, i + 1) ELSE 0

ParseFail == [ok |-> FALSE, val |-> 0, pos |-> 0]

NumberToken(s, i, nd) ==
    [ok |-> TRUE, val |-> DigitsToNat(SubSeq(s, i, i + nd - 1), 0), pos |-> i + nd]

SymbolToken(sym, scope, pos) ==
    IF sym \in DOMAIN scope
    THEN [ok |-> TRUE, val |-> scope[sym], pos |-> pos]
    ELSE ParseFail

SymbolAt(s, i, nw, scope) == SymbolToken(SubSeq(s, i, i + nw - 1), scope, i + nw)

Negate(f) == IF f.ok THEN [f EXCEPT !.val = 0 - f.val] ELSE ParseFail

RECURSIVE ParseFactor(_, _, _)
\* a factor that starts at index i, white space skipped
ParseFactorAt(s, i, scope) ==
    IF i > Len(s) THEN ParseFail
    ELSE IF IsDigit(s[i]) THEN NumberToken(s, i, DigitRunLen(s, i))
    ELSE IF IsUpper(s[i]) \/ IsLower(s[i]) \/ s[i] = "_"
    THEN SymbolAt(s, i, WordRunLen(s, i), scope)
    ELSE IF s[i] = "-" THEN Negate(ParseFactor(s, i + 1, scope))
    ELSE IF s[i] = "+" THEN ParseFactor(s, i + 1, scope)
    ELSE ParseFail

ParseFactor(s, i0, scope) == ParseFactorAt(s, SkipWs(s, i0), scope)

RECURSIVE ParseTermRest(_, _, _, _)
\* acc * f, then the rest of the term
TermStep(s, scope, acc, f) ==
    IF f.ok THEN ParseTermRest(s, f.pos, scope, acc * f.val) ELSE ParseFail

TermRestAt(s, i, scope, acc) ==
    IF i <= Len(s) /\ s[i] = "*"
    THEN TermStep(s, scope, acc, ParseFactor(s, i + 1, scope))
    ELSE [ok |-> TRUE, val |-> acc, pos |-> i]

ParseTermRest(s, i0, scope, acc) == TermRestAt(s, SkipWs(s, i0), scope, acc)

TermStart(s, scope, f) ==
    IF f.ok THEN ParseTermRest(s, f.pos, scope, f.val) ELSE ParseFail

ParseTerm(s, i, scope) == TermStart(s, scope, ParseFactor(s, i, scope))

RECURSIVE ParseExprRest(_, _, _, _)
\* acc + t or acc - t, then the rest of the expression
ExprStep(s, scope, acc, plus, t) ==
    IF t.ok
    THEN ParseExprRest(s, t.pos, scope, IF plus THEN acc + t.val ELSE acc - t.val)
    ELSE ParseFail

ExprRestAt(s, i, scope, acc) ==
    IF i <= Len(s) /\ s[i] \in {"+", "-"}
    THEN ExprStep(s, scope, acc, s[i] = "+", ParseTerm(s, i + 1, scope))
    ELSE [ok |-> TRUE, val |-> acc, pos |-> i]

ParseExprRest(s, i0, scope, acc) == ExprRestAt(s, SkipWs(s, i0), scope, acc)

ExprStart(s, scope, t) ==
    IF t.ok THEN ParseExprRest(s, t.pos, scope, t.val) ELSE ParseFail

ParseExpr(s, i, scope) == ExprStart(s, scope, ParseTerm(s, i, scope))

\* the outcome of math.evaluate from the parse r of the whole expression
EvaluateResult(expr, r) ==
    IF r.ok /\ r.pos > Len(expr)
    THEN [thrown |-> FALSE, undef |-> FALSE, val |-> r.val]
    ELSE [thrown |-> TRUE, undef |-> FALSE, val |-> 0]

MathEvaluate(expr, scope) ==
    IF SkipWs(expr, 1) > Len(expr)
    THEN [thrown |-> FALSE, undef |-> TRUE, val |-> 0]
    ELSE EvaluateResult(expr, ParseExpr(expr, 1, scope))

UndefinedStr == <<"u","n","d","e","f","i","n","e","d">>

\* String(result) of a result of math.evaluate that did not throw
StringOf(result) == IF result.undef THEN UndefinedStr ELSE IntToStr(result.val)

\* ------------------------------------------------------------------------
\* The cell store: a JavaScript object from coordKey to {x, y, content}.
\* order is Object.keys(cells): the keys in insertion order.
\* ------------------------------------------------------------------------
EmptyCells == [order |-> <<>>, cell |-> EmptyMap]

HasKey(cells, key) == key \in DOMAIN cells.cell

\* grid.js setCell: next = { ...cells }; next[key] = { x, y, content }
setCell(cells, x, y, content) ==
    LET key == coordKey(x, y)
    IN  [order |-> SetAdd(cells.order, key),
         cell  |-> Put(cells.cell, key, [x |-> x, y |-> y, content |-> content])]

\* grid.js createInitialCells: the single cell (0, 0) with content ''
createInitialCells == setCell(EmptyCells, 0, 0, <<>>)

\* grid.js hasCell: !!cells[coordKey(x, y)]
hasCell(cells, x, y) == HasKey(cells, coordKey(x, y))

\* grid.js neighbors4, and the candidates of expandIfAllowed: top, right,
\* bottom, left
neighbors4(x, y) ==
    << [x |-> x, y |-> y + 1], [x |-> x + 1, y |-> y],
       [x |-> x, y |-> y - 1], [x |-> x - 1, y |-> y] >>

\* !c.content || String(c.content).trim().length === 0
isEmpty(content) == content = <<>> \/ Trim(content) = <<>>

\* delete next[key]
DeleteKey(cells, key) ==
    [order |-> SelectSeq(cells.order, LAMBDA k : k # key),
     cell  |-> [k \in DOMAIN cells.cell \ {key} |-> cells.cell[k]]]

\* grid.js hasNonEmptyNeighbor
hasNonEmptyNeighbor(cells, x, y) ==
    \E i \in 1..4 :
        /\ hasCell(cells, neighbors4(x, y)[i].x, neighbors4(x, y)[i].y)
        /\ ~isEmpty(cells.cell[coordKey(neighbors4(x, y)[i].x, neighbors4(x, y)[i].y)].content)

\* The stores as objects: heap is the sequence of the objects allocated so
\* far, a reference is an index into it, and a function returns
\* [heap, ref]: the heap it leaves and the reference it returns.
Alloc(heap, value) == [heap |-> Append(heap, value), ref |-> Len(heap) + 1]

\* setCell writing into the object it was given
setCellRef_InPlace(heap, ref, x, y, content) ==
    [heap |-> [heap EXCEPT ![ref] = setCell(heap[ref], x, y, content)], ref |-> ref]

\* grid.js setCell: const next = { ...cells }; next[key] = { x, y, content };
\* return next
setCellRef(heap, ref, x, y, content) ==
    Alloc(heap, setCell(heap[ref], x, y, content))

\* the body of the loop without the test: next = setCell(next, c.x, c.y, '')
expandStep_Overwrite(st, c) == setCellRef(st.heap, st.ref, c.x, c.y, <<>>)

\* if (!hasCell(next, c.x, c.y)) next = setCell(next, c.x, c.y, '')
expandStep(st, c) ==
    IF hasCell(st.heap[st.ref], c.x, c.y) THEN st
    ELSE setCellRef(st.heap, st.ref, c.x, c.y, <<>>)

RECURSIVE expandLoop(_, _, _)
\* for (const c of candidates) ...
expandLoop(st, candidates, i) ==
    IF i > Len(candidates) THEN st
    ELSE expandLoop(expandStep(st, candidates[i]), candidates, i + 1)

\* expandIfAllowed adding every candidate that is within bounds
expandIfAllowedRef_Partial(heap, ref, x, y) ==
    expandLoop(Alloc(heap, heap[ref]),
               SelectSeq(neighbors4(x, y), LAMBDA c : withinBounds(c.x, c.y)), 1)

\* expandIfAllowed without the test of the bounds
expandIfAllowedRef_NoBounds(heap, ref, x, y) ==
    expandLoop(Alloc(heap, heap[ref]), neighbors4(x, y), 1)

\* grid.js expandIfAllowed: return cells if a candidate is out of bounds,
\* else let next = { ...cells } and the loop
expandIfAllowedRef(heap, ref, x, y) ==
    IF \E i \in 1..4 : ~withinBounds(neighbors4(x, y)[i].x, neighbors4(x, y)[i].y)
    THEN [heap |-> heap, ref |-> ref]
    ELSE expandLoop(Alloc(heap, heap[ref]), neighbors4(x, y), 1)

\* the body of the loop of pruneAdjacentIsolatedEmpties that removes every
\* empty neighbour
pruneStep_NoNeighbourTest(st, n) ==
    IF ~hasCell(st.heap[st.ref], n.x, n.y) THEN st
    ELSE IF ~isEmpty(st.heap[st.ref].cell[coordKey(n.x, n.y)].content) THEN st
    ELSE Alloc(st.heap, DeleteKey(st.heap[st.ref], coordKey(n.x, n.y)))

\* if (!c) continue; if (!isEmpty) continue;
\* if (!hasNonEmptyNeighbor(next, n.x, n.y)) { next = { ...next }; delete next[key] }
pruneStep(st, n) ==
    IF ~hasCell(st.heap[st.ref], n.x, n.y) THEN st
    ELSE IF ~isEmpty(st.heap[st.ref].cell[coordKey(n.x, n.y)].content) THEN st
    ELSE IF hasNonEmptyNeighbor(st.heap[st.ref], n.x, n.y) THEN st
    ELSE Alloc(st.heap, DeleteKey(st.heap[st.ref], coordKey(n.x, n.y)))

RECURSIVE pruneLoop(_, _, _)
\* for (const n of neighbors4(x, y)) ...
pruneLoop(st, ns, i) ==
    IF i > Len(ns) THEN st
    ELSE pruneLoop(pruneStep(st, ns[i]), ns, i + 1)

\* grid.js pruneAdjacentIsolatedEmpties: let next = { ...cells } and the loop
pruneAdjacentIsolatedEmptiesRef(heap, ref, x, y) ==
    pruneLoop(Alloc(heap, heap[ref]), neighbors4(x, y), 1)

\* the object a [heap, ref] refers to
Deref(st) == st.heap[st.ref]

\* the store expandIfAllowed(cells, x, y) returns
expandIfAllowed(cells, x, y) == Deref(expandIfAllowedRef(<<cells>>, 1, x, y))

\* the store pruneAdjacentIsolatedEmpties(cells, x, y) returns
pruneAdjacentIsolatedEmpties(cells, x, y) ==
    Deref(pruneAdjacentIsolatedEmptiesRef(<<cells>>, 1, x, y))

\* cell.content.startsWith('=')
IsFormula(content) == content # <<>> /\ Head(content) = "="

\* ------------------------------------------------------------------------
\* formula.js: getDisplayValueForCell
\* The call returns its value and leaves memo and visiting modified; the
\* operator returns all three: [val, memo, visiting].
\* ------------------------------------------------------------------------
RECURSIVE getDisplayValueForCell(_, _, _, _)

\* scope[ref] = Number.isFinite(numeric) ? numeric : 0, after the recursive
\* call for ref returned r = [val, memo, visiting]
bindRef(st, ref, r) ==
    [memo     |-> r.memo,
     visiting |-> r.visiting,
     scope    |-> Put(st.scope, ref, NumericOf(r.val))]

\* the iteration without the recursive call: the value of a referenced cell
\* is read from memo, '' when the cell was not evaluated yet
resolveRef_MemoOnly(cells, st, ref, xy) ==
    IF xy = Null
    THEN [st EXCEPT !.scope = Put(st.scope, ref, DEFAULT_NUMERIC_VALUE)]
    ELSE bindRef(st, ref,
                 [val |-> IF coordKey(xy.x, xy.y) \in DOMAIN st.memo
                          THEN st.memo[coordKey(xy.x, xy.y)] ELSE <<>>,
                  memo |-> st.memo, visiting |-> st.visiting])

\* one iteration of for (const ref of refs), xy = cellRefToXY(ref)
resolveRef(cells, st, ref, xy) ==
    IF xy = Null
    THEN [st EXCEPT !.scope = Put(st.scope, ref, DEFAULT_NUMERIC_VALUE)]
    ELSE bindRef(st, ref,
                 getDisplayValueForCell(cells, coordKey(xy.x, xy.y), st.memo, st.visiting))

RECURSIVE refsLoop(_, _, _, _)
\* for (const ref of refs) { ... scope[ref] = ... }, from the i-th ref on;
\* st = [memo, visiting, scope]
refsLoop(cells, refs, i, st) ==
    IF i > Len(refs) THEN st
    ELSE refsLoop(cells, refs, i + 1,
                  resolveRef(cells, st, refs[i], cellRefToXY(refs[i])))

\* memo[key] = v; visiting.delete(key); return v
storeResult(key, st, v) ==
    [val |-> v, memo |-> Put(st.memo, key, v), visiting |-> st.visiting \ {key}]

\* the coordinate a resolvable reference stands for
refKeyOf(xy) == coordKey(xy.x, xy.y)

\* the keys the references of a formula resolve to
RefKeys(formula) ==
    { refKeyOf(cellRefToXY(ref)) :
        ref \in { r \in Range(extractRefs(formula)) : cellRefToXY(r) # Null } }

\* tryEvaluate, a formula being in error as soon as an operand is
tryEvaluate_Cascade(cells, key, formula, st, result) ==
    storeResult(key, st,
                IF result.thrown \/ \E r \in RefKeys(formula) : st.memo[r] = ERROR_VALUE
                THEN ERROR_VALUE ELSE StringOf(result))

\* tryEvaluate, a formula being in error when it refers to a missing cell
tryEvaluate_MissingIsError(cells, key, formula, st, result) ==
    storeResult(key, st,
                IF result.thrown \/ \E r \in RefKeys(formula) : ~HasKey(cells, r)
                THEN ERROR_VALUE ELSE StringOf(result))

\* try { memo[key] = String(result) } catch (e) { memo[key] = ERROR_VALUE },
\* result being the outcome of math.evaluate(expr, scope)
tryEvaluate(cells, key, formula, st, result) ==
    storeResult(key, st, IF result.thrown THEN ERROR_VALUE ELSE StringOf(result))

\* the body from the try block on, st the state the loop over refs left
evaluateBody(cells, key, formula, st) ==
    tryEvaluate(cells, key, formula, st, MathEvaluate(formula, st.scope))

\* visiting.add(key) and the rest of the body, for the formula cell key
formulaBody(cells, key, formula, memo, visiting) ==
    evaluateBody(cells, key, formula,
                 refsLoop(cells, extractRefs(formula), 1,
                          [memo     |-> memo,
                           visiting |-> visiting \cup {key},
                           scope    |-> EmptyMap]))

getDisplayValueForCell(cells, key, memo, visiting) ==
    IF key \in DOMAIN memo
    THEN [val |-> memo[key], memo |-> memo, visiting |-> visiting]
    ELSE IF ~HasKey(cells, key) \/ cells.cell[key].content = <<>>
    THEN [val |-> <<>>, memo |-> Put(memo, key, <<>>), visiting |-> visiting]
    ELSE IF ~IsFormula(cells.cell[key].content)
    THEN [val |-> cells.cell[key].content,
          memo |-> Put(memo, key, cells.cell[key].content),
          visiting |-> visiting]
    ELSE IF key \in visiting
    THEN [val |-> ERROR_VALUE, memo |-> Put(memo, key, ERROR_VALUE),
          visiting |-> visiting]
    ELSE formulaBody(cells, key, Tail(cells.cell[key].content), memo, visiting)

RECURSIVE computeAllLoop(_, _, _)
\* for (const key of Object.keys(cells)) getDisplayValueForCell(cells, key, memo, new Set())
computeAllLoop(cells, i, memo) ==
    IF i > Len(cells.order) THEN memo
    ELSE computeAllLoop(cells, i + 1,
                        getDisplayValueForCell(cells, cells.order[i], memo, {}).memo)

computeAllDisplayValues(cells) == computeAllLoop(cells, 1, EmptyMap)

\* ------------------------------------------------------------------------
\* formula.js: buildDependencyGraph.  dependents and dependencies map a key
\* to a Set of keys (a duplicate-free sequence in insertion order).
\* ------------------------------------------------------------------------
\* addEdge that records the dependent only for a key of the store
addEdge_NoDangling(key, refKey, g) ==
    [dependencies |-> Put(g.dependencies, key, SetAdd(g.dependencies[key], refKey)),
     dependents   |-> IF refKey \in DOMAIN g.dependents
                      THEN Put(g.dependents, refKey, SetAdd(g.dependents[refKey], key))
                      ELSE g.dependents]

\* addEdge that always starts a new Set for refKey: the earlier referrers are lost
addEdge_Overwrite(key, refKey, g) ==
    [dependencies |-> Put(g.dependencies, key, SetAdd(g.dependencies[key], refKey)),
     dependents   |-> Put(g.dependents, refKey, <<key>>)]

\* dependencies[key].add(refKey); dependents[refKey].add(key), the Set of
\* refKey being created when the store has no such key
addEdge(key, refKey, g) ==
    [dependencies |-> Put(g.dependencies, key, SetAdd(g.dependencies[key], refKey)),
     dependents   |-> IF refKey \in DOMAIN g.dependents
                      THEN Put(g.dependents, refKey, SetAdd(g.dependents[refKey], key))
                      ELSE Put(g.dependents, refKey, <<key>>)]

\* one iteration of for (const ref of refs), xy = cellRefToXY(ref)
addRef(key, g, xy) == IF xy = Null THEN g ELSE addEdge(key, refKeyOf(xy), g)

RECURSIVE buildRefsLoop(_, _, _, _)
\* for (const ref of refs) of the formula cell key, from the i-th ref on
buildRefsLoop(key, refs, i, g) ==
    IF i > Len(refs) THEN g
    ELSE buildRefsLoop(key, refs, i + 1, addRef(key, g, cellRefToXY(refs[i])))

RECURSIVE buildCellsLoop(_, _, _)
\* buildCellsLoop without the test that skips the cells that are no formula
buildCellsLoop_NoFormulaTest(cells, i, g) ==
    IF i > Len(cells.order) THEN g
    ELSE buildCellsLoop(cells, i + 1,
             buildRefsLoop(cells.order[i],
                           extractRefs(IF IsFormula(cells.cell[cells.order[i]].content)
                                       THEN Tail(cells.cell[cells.order[i]].content)
                                       ELSE cells.cell[cells.order[i]].content),
                           1, g))

\* for (const [key, cell] of Object.entries(cells)), from the i-th entry on
buildCellsLoop(cells, i, g) ==
    IF i > Len(cells.order) THEN g
    ELSE LET key     == cells.order[i]
             content == cells.cell[key].content
         IN  IF ~IsFormula(content)
             THEN buildCellsLoop(cells, i + 1, g)
             ELSE buildCellsLoop(cells, i + 1,
                                 buildRefsLoop(key, extractRefs(Tail(content)), 1, g))

buildDependencyGraph(cells) ==
    buildCellsLoop(cells, 1,
                   [dependents   |-> [k \in DOMAIN cells.cell |-> <<>>],
                    dependencies |-> [k \in DOMAIN cells.cell |-> <<>>]])

\* ------------------------------------------------------------------------
\* formula.js: getAffectedCells
\* ------------------------------------------------------------------------
RECURSIVE Dedupe(_, _)
\* new Set(array): the elements of the array s in order of first occurrence
Dedupe(s, acc) == IF s = <<>> THEN acc ELSE Dedupe(Tail(s), SetAdd(acc, Head(s)))

RECURSIVE dependentsLoop(_, _, _)
\* for (const dependent of cellDependents), from the i-th on;
\* st = [affected, toProcess]
dependentsLoop(cellDependents, i, st) ==
    IF i > Len(cellDependents) THEN st
    ELSE LET dependent == cellDependents[i]
         IN  IF ~InSeq(st.affected, dependent)
             THEN dependentsLoop(cellDependents, i + 1,
                                 [affected  |-> Append(st.affected, dependent),
                                  toProcess |-> Append(st.toProcess, dependent)])
             ELSE dependentsLoop(cellDependents, i + 1, st)

RECURSIVE affectedLoop(_, _)
\* affectedLoop that does not push the dependents it finds: the direct
\* dependents of the changed keys only
affectedLoop_DirectOnly(dependents, st) ==
    IF Len(st.toProcess) = 0 THEN st.affected
    ELSE LET currentKey == st.toProcess[Len(st.toProcess)]
             rest == SubSeq(st.toProcess, 1, Len(st.toProcess) - 1)
         IN  IF currentKey \in DOMAIN dependents
             THEN affectedLoop(dependents,
                      [affected  |-> dependentsLoop(dependents[currentKey], 1,
                                        [affected |-> st.affected, toProcess |-> <<>>]).affected,
                       toProcess |-> rest])
             ELSE affectedLoop(dependents, [st EXCEPT !.toProcess = rest])

\* while (toProcess.length > 0) { currentKey = toProcess.pop(); ... }
affectedLoop(dependents, st) ==
    IF Len(st.toProcess) = 0 THEN st.affected
    ELSE LET currentKey == st.toProcess[Len(st.toProcess)]
             popped == [st EXCEPT !.toProcess = SubSeq(st.toProcess, 1, Len(st.toProcess) - 1)]
         IN  IF currentKey \in DOMAIN dependents
             THEN affectedLoop(dependents,
                               dependentsLoop(dependents[currentKey], 1, popped))
             ELSE affectedLoop(dependents, popped)

getAffectedCells(changedKeys, graph) ==
    affectedLoop(graph.dependents,
                 [affected |-> Dedupe(changedKeys, <<>>), toProcess |-> changedKeys])

\* ------------------------------------------------------------------------
\* formula.js: computeUpdatedDisplayValues, computeDisplayValues
\* ------------------------------------------------------------------------
\* newValues[key] = result, r = [val, memo, visiting] being what the call left
assignResult(st, key, r) ==
    [newValues |-> Put(st.newValues, key, r.val),
     memo      |-> r.memo,
     visiting  |-> r.visiting]

RECURSIVE updateLoop(_, _, _, _)
\* for (const key of affectedKeys) { newValues[key] = getDisplayValueForCell(...) }
\* st = [newValues, memo, visiting]
updateLoop(cells, affectedKeys, i, st) ==
    IF i > Len(affectedKeys) THEN st
    ELSE updateLoop(cells, affectedKeys, i + 1,
                    assignResult(st, affectedKeys[i],
                        getDisplayValueForCell(cells, affectedKeys[i], st.memo, st.visiting)))

\* computeUpdatedDisplayValues with the memo of the pass seeded from previousValues
computeUpdatedDisplayValues_PrevAsMemo(cells, previousValues, changedKeys) ==
    IF Len(changedKeys) = 0 THEN computeAllDisplayValues(cells)
    ELSE LET dependencyGraph == buildDependencyGraph(cells)
             affectedKeys    == getAffectedCells(changedKeys, dependencyGraph)
         IN  updateLoop(cells, affectedKeys, 1,
                        [newValues |-> previousValues,
                         memo      |-> previousValues,
                         visiting  |-> {}]).newValues

computeUpdatedDisplayValues(cells, previousValues, changedKeys) ==
    IF Len(changedKeys) = 0 THEN computeAllDisplayValues(cells)
    ELSE LET dependencyGraph == buildDependencyGraph(cells)
             affectedKeys    == getAffectedCells(changedKeys, dependencyGraph)
         IN  updateLoop(cells, affectedKeys, 1,
                        [newValues |-> previousValues,
                         memo      |-> EmptyMap,
                         visiting  |-> {}]).newValues

\* formula.js: evaluateContentForDisplay
\* tmpCells = { ...cells, [key]: { x, y, content } }
tmpCells(cells, x, y, content) ==
    [order |-> SetAdd(cells.order, coordKey(x, y)),
     cell  |-> Put(cells.cell, coordKey(x, y), [x |-> x, y |-> y, content |-> content])]

evaluateContentForDisplay(cells, x, y, content) ==
    IF content = <<>> THEN <<>>
    ELSE IF ~IsFormula(content) THEN content
    ELSE getDisplayValueForCell(tmpCells(cells, x, y, content),
                                coordKey(x, y), EmptyMap, {}).val

\* return getDisplayValueForCell(tmpCells, key, memo, visiting), st being the
\* heap with tmpCells and the reference to it
evaluateTmpCells(st, x, y) ==
    [heap |-> st.heap, ref |-> st.ref,
     value |-> getDisplayValueForCell(st.heap[st.ref], coordKey(x, y), EmptyMap, {}).val]

\* evaluateContentForDisplay on the store object ref: tmpCells is a new object
evaluateContentForDisplayRef(heap, ref, x, y, content) ==
    IF content = <<>> THEN [heap |-> heap, ref |-> ref, value |-> <<>>]
    ELSE IF ~IsFormula(content) THEN [heap |-> heap, ref |-> ref, value |-> content]
    ELSE evaluateTmpCells(Alloc(heap, tmpCells(heap[ref], x, y, content)), x, y)

\* what a function that only reads the store c returns
readResult(fn, c, x, y) ==
    CASE fn = "getDisplayValueForCell" ->
             getDisplayValueForCell(c, coordKey(x, y), EmptyMap, {}).val
      [] fn = "computeAllDisplayValues" -> computeAllDisplayValues(c)
      [] fn = "buildDependencyGraph" -> buildDependencyGraph(c)
      [] fn = "computeUpdatedDisplayValues" ->
             computeUpdatedDisplayValues(c, EmptyMap, <<coordKey(x, y)>>)

\* An argument that may be left out of a call: [present, v]
Passed(v) == [present |-> TRUE, v |-> v]
NotPassed(default) == [present |-> FALSE, v |-> default]

\* computeUpdatedDisplayValues(cells, previousValues = {}, changedKeys = []):
\* an argument that is not passed takes its default value
computeUpdatedDisplayValuesDefaults(cells, previousValues, changedKeys) ==
    computeUpdatedDisplayValues(cells,
        IF previousValues.present THEN previousValues.v ELSE EmptyMap,
        IF changedKeys.present THEN changedKeys.v ELSE <<>>)

\* computeDisplayValues without the test of previousValues
computeDisplayValues_NoPreviousTest(cells, previousValues, changedKeys) ==
    IF changedKeys.present /\ Len(changedKeys.v) > 0
    THEN computeUpdatedDisplayValuesDefaults(cells, previousValues, changedKeys)
    ELSE computeAllDisplayValues(cells)

\* if (previousValues && changedKeys && changedKeys.length > 0) selective
\* update, else full recalculation
computeDisplayValues(cells, previousValues, changedKeys) ==
    IF previousValues.present /\ changedKeys.present /\ Len(changedKeys.v) > 0
    THEN computeUpdatedDisplayValuesDefaults(cells, previousValues, changedKeys)
    ELSE computeAllDisplayValues(cells)

\* ------------------------------------------------------------------------
\* constants.js: UI_CONSTANTS.GRID_BOUNDS
\* ------------------------------------------------------------------------
GRID_BOUNDS_MIN == -12
GRID_BOUNDS_MAX == 12

\* ------------------------------------------------------------------------
\* undo.js
\* ------------------------------------------------------------------------
MAX_HISTORY == 50

\* JSON.stringify(cells): the entries in key order, the numbers as text
stringifyEntry(cell, key) ==
    [key |-> key, x |-> IntToStr(cell.x), y |-> IntToStr(cell.y),
     content |-> cell.content]

stringify(cells) ==
    [i \in 1..Len(cells.order) |->
        stringifyEntry(cells.cell[cells.order[i]], cells.order[i])]

\* the cell object read from the text of an entry
parseEntry(entry) ==
    [x |-> parseInt(entry.x).val, y |-> parseInt(entry.y).val,
     content |-> entry.content]

\* JSON.parse(snapshot): the object with the properties in the order of the text
parse(snapshot) ==
    [order |-> [i \in 1..Len(snapshot) |-> snapshot[i].key],
     cell  |-> [k \in { snapshot[i].key : i \in 1..Len(snapshot) } |->
                   parseEntry(snapshot[CHOOSE i \in 1..Len(snapshot) :
                                           snapshot[i].key = k])]]

\* the array without the slice
sliceLast_NoSlice(h) == h

\* [...history, snapshot].slice(-MAX_HISTORY)
sliceLast(h) ==
    IF Len(h) > MAX_HISTORY THEN SubSeq(h, Len(h) - MAX_HISTORY + 1, Len(h)) ELSE h

\* undo.js pushHistory: the history of the napkin it returns
pushHistory(history, cells) == sliceLast(Append(history, stringify(cells)))

\* a property of an object: missing, or present with its value
Missing == [present |-> FALSE, value |-> <<>>]
Present(v) == [present |-> TRUE, value |-> v]

\* the napkin object: cells, history and the fields id, name, nameIsCustom
Napkin(c, h, m) == [cells |-> c, history |-> h, meta |-> m]

\* undoOnce that returns a changed napkin whatever the history is
undoOnce_NoHistoryTest(napkin) ==
    [napkin  |-> [napkin EXCEPT !.history = Present(<<>>)],
     changed |-> TRUE, same |-> FALSE]

\* undoOnce that keeps the snapshot it restores in the history
undoOnce_KeepSnapshot(napkin) ==
    IF ~napkin.history.present \/ napkin.history.value = <<>>
    THEN [napkin |-> napkin, changed |-> FALSE, same |-> TRUE]
    ELSE [napkin  |-> [napkin EXCEPT
                          !.cells = parse(napkin.history.value[Len(napkin.history.value)])],
          changed |-> TRUE, same |-> FALSE]

\* undo.js undoOnce: { napkin, changed }; same says that the napkin returned
\* is the argument itself, not a new object
\*   if (!history || history.length === 0) return { napkin, changed: false };
\*   prevCells = JSON.parse(history[history.length - 1]);
\*   return { napkin: { ...napkin, cells: prevCells, history: history.slice(0, -1) }, changed: true };
undoOnce(napkin) ==
    IF ~napkin.history.present \/ napkin.history.value = <<>>
    THEN [napkin |-> napkin, changed |-> FALSE, same |-> TRUE]
    ELSE [napkin  |-> [napkin EXCEPT
                          !.cells = parse(napkin.history.value[Len(napkin.history.value)]),
                          !.history = Present(SubSeq(napkin.history.value, 1,
                                                     Len(napkin.history.value) - 1))],
          changed |-> TRUE, same |-> FALSE]

\* ------------------------------------------------------------------------
\* conditionalHelpers.js: shouldExpandGrid, shouldPruneGrid, isValidFormula
\* ------------------------------------------------------------------------
\* Boolean(content && content.trim())
hasContent(content) == content # <<>> /\ Trim(content) # <<>>

shouldExpandGrid(oldContent, newContent) ==
    ~hasContent(oldContent) /\ hasContent(newContent)

shouldPruneGrid(oldContent, newContent) ==
    hasContent(oldContent) /\ ~hasContent(newContent)

\* typeof str === 'string' && str.startsWith('=') && str.length > 1
isValidFormula(str) == str # <<>> /\ Head(str) = "=" /\ Len(str) > 1

\* ------------------------------------------------------------------------
\* NapkinScreen.js: saveCellIfChanged
\* ------------------------------------------------------------------------
\* state.cells[key]?.content || ''
prevContentOf(cells, x, y) ==
    IF hasCell(cells, x, y) THEN cells.cell[coordKey(x, y)].content ELSE <<>>

\* the branch taken by the helpers of conditionalHelpers.js
gridChange_Helpers(prevContent, newContent) ==
    IF shouldExpandGrid(prevContent, newContent) THEN "expand"
    ELSE IF shouldPruneGrid(prevContent, newContent) THEN "prune"
    ELSE "none"

\* if (!prevContent && newContent.trim()) expand
\* else if (prevContent && !newContent.trim()) prune
gridChange(prevContent, newContent) ==
    IF prevContent = <<>> /\ Trim(newContent) # <<>> THEN "expand"
    ELSE IF prevContent # <<>> /\ Trim(newContent) = <<>> THEN "prune"
    ELSE "none"

\* the store after the expansion or pruning chosen by change
applyGridChange(cells, x, y, change) ==
    IF change = "expand" THEN expandIfAllowed(cells, x, y)
    ELSE IF change = "prune" THEN pruneAdjacentIsolatedEmpties(cells, x, y)
    ELSE cells

\* nextNapkin.cells of saveCellIfChanged, for a content that differs from
\* the previous one
savedCells(cells, x, y, newContent) ==
    applyGridChange(setCell(cells, x, y, newContent), x, y,
                    gridChange(prevContentOf(cells, x, y), newContent))

\* ------------------------------------------------------------------------
\* useFormulaLogic.js: changedKeys and displayValues
\* ------------------------------------------------------------------------
\* the test of the first loop without the comparison of the contents
addedOrModified_AddedOnly(cells, prevCells, key) == ~HasKey(prevCells, key)

\* !previousKeys.has(key) || cells[key].content !== prevCellsRef.current[key]?.content
addedOrModified(cells, prevCells, key) ==
    IF HasKey(prevCells, key)
    THEN cells.cell[key].content # prevCells.cell[key].content
    ELSE TRUE

\* the changes array: the added or modified keys in the order of the
\* current store, then the removed keys in the order of the previous store
detectChanges(cells, prevCells) ==
    SelectSeq(cells.order, LAMBDA k : addedOrModified(cells, prevCells, k))
    \o SelectSeq(prevCells.order, LAMBDA k : ~HasKey(cells, k))

\* the changedKeys memo, [] standing for null: changes.length > 0 ? changes : null
changedKeysOf(cells, prevCells) == detectChanges(cells, prevCells)

\* the displayValues memo of a render that is not the first one
renderValues(cells, prevValues, ck) ==
    IF ck = <<>>
    THEN computeDisplayValues(cells, NotPassed(EmptyMap), NotPassed(<<>>))
    ELSE computeDisplayValues(cells, Passed(prevValues), Passed(ck))

\* newValues = previousValues without the copy: the writes reach the caller's object
previousValuesAfter_Aliased(cells, previousValues, changedKeys) ==
    computeUpdatedDisplayValues(cells, previousValues, changedKeys)

\* the object previousValues as the call leaves it: newValues is a copy
\* ({ ...previousValues }), so the writes to newValues do not reach it
previousValuesAfter(cells, previousValues, changedKeys) == previousValues

\* ------------------------------------------------------------------------
\* Inputs of the model
\* ------------------------------------------------------------------------
KeyA1 == coordKey(GRID_MIN, GRID_MAX)
KeyB1 == coordKey(GRID_MIN + 1, GRID_MAX)
KeyC1 == coordKey(GRID_MIN + 2, GRID_MAX)
KeyD1 == coordKey(GRID_MIN + 3, GRID_MAX)
\* E1: a coordinate that holds no cell and that no formula refers to
KeyE1 == coordKey(GRID_MIN + 4, GRID_MAX)
\* the coordinate that the reference Z99 resolves to
KeyZ99 == coordKey(GRID_MIN + 25, GRID_MAX - 98)

\* every key a store, a graph or a display map of the model can hold
KeyUniverse == { KeyA1, KeyB1, KeyC1, KeyD1, KeyE1, KeyZ99 }

\* marks a coordinate that is left without a cell (no content is this value)
Absent == <<"absent">>

\* the contents the cells A1, B1, C1 and D1 are drawn from
ContentsA1 ==
    { <<"2">>, <<"3">>, <<"=","A","1">>, <<"=","B","1">>, <<"=","2","+">>,
      <<"=","Z","9","9","*","2">> }
ContentsB1 ==
    { Absent, <<"=","A","1","*","2">>, <<"=","A","1","+","1">>,
      <<"h","e","l","l","o">> }
ContentsC1 ==
    { Absent, <<"=","A","1","*","3">>, <<"=","B","1">> }
ContentsD1 ==
    { Absent, <<"=","B","1","+","C","1">> }

\* setCell unless the content is Absent
setCellOpt(cells, x, y, content) ==
    IF content = Absent THEN cells ELSE setCell(cells, x, y, content)

\* the store with the given contents, the cells created from A1 to D1
Store4(a, b, c, d) ==
    setCellOpt(setCellOpt(setCellOpt(setCellOpt(EmptyCells,
        GRID_MIN, GRID_MAX, a), GRID_MIN + 1, GRID_MAX, b),
        GRID_MIN + 2, GRID_MAX, c), GRID_MIN + 3, GRID_MAX, d)

\* the diamond A1 -> {B1, C1} -> D1 with A1 = 2
DiamondStore ==
    Store4(<<"2">>, <<"=","A","1","*","2">>, <<"=","A","1","*","3">>,
           <<"=","B","1","+","C","1">>)

Stores ==
    { Store4(a, b, c, d) :
        a \in ContentsA1, b \in ContentsB1, c \in ContentsC1, d \in ContentsD1 }

\* a display map that belongs to no store of the model
StrayValues ==
    Put(Put(Put(EmptyMap, KeyA1, <<"h","e","l","l","o">>), KeyD1, <<"7">>),
        KeyE1, <<"9">>)

\* the maps passed as previousValues for the store cells: nothing, the map
\* of this store, the map of another store, and an unrelated map
PreviousChoices(cells) ==
    { EmptyMap,
      computeAllDisplayValues(cells),
      computeAllDisplayValues(DiamondStore),
      StrayValues }

\* length of the changedKeys array of a selective recompute
MaxChanged == 2

RECURSIVE SeqsUpTo(_, _)
\* the duplicate-free sequences over S of length 1..n
SeqsUpTo(S, n) ==
    IF n = 0 THEN {}
    ELSE LET shorter == SeqsUpTo(S, n - 1)
         IN  shorter \cup
             IF n = 1 THEN { <<e>> : e \in S }
             ELSE { Append(q, e) : q \in { r \in shorter : Len(r) = n - 1 },
                                   e \in S }

\* the keys passed in changedKeys
ChangedKeyChoices == { KeyA1, KeyB1, KeyE1 }

ChangedChoices ==
    { q \in SeqsUpTo(ChangedKeyChoices, MaxChanged) :
        \A i, j \in 1..Len(q) : i # j => q[i] # q[j] }

\* ------------------------------------------------------------------------
\* State: the inputs of a recompute and what the last recompute call left
\* ------------------------------------------------------------------------
VARIABLES
    cells,           \* the cell store
    previousValues,  \* the object passed as previousValues
    op,              \* the last call: "none", "all", "updated"
    changedKeys,     \* the array passed as changedKeys to the last call
    displayValues,   \* the map the last call returned
    graph,           \* the dependency graph the last selective call built
    affected         \* the affected keys of the last selective call, in order

\* One pass of the evaluator, statement by statement (getDisplayValueForCell
\* called by the loop of computeAllDisplayValues or of computeUpdatedDisplayValues)
VARIABLES
    ePc,         \* "idle", "next", "call", "loop", "ret", "done"
    eMode,       \* "none", "all" (full recompute), "updated" (selective recompute)
    eQueue,      \* the keys the loop of the pass has not reached yet
    eTopKey,     \* the key of the loop's current call
    eStack,      \* the formula evaluations in progress: [key, refs, i, scope]
    eCallKey,    \* the key argument of the call being entered
    eRet,        \* the value being returned
    eMemo,       \* memo
    eVisiting,   \* visiting
    eNewValues,  \* newValues of computeUpdatedDisplayValues
    eBodyStarts, \* how many times the formula body of each key was started
    eTopCount,   \* the number of keys the loop of the pass goes through
    eSteps       \* the number of steps of the pass so far

evars == <<ePc, eMode, eQueue, eTopKey, eStack, eCallKey, eRet, eMemo, eVisiting,
           eNewValues, eBodyStarts, eTopCount, eSteps>>

fvars == <<cells, previousValues, op, changedKeys, displayValues, graph, affected>>

\* The preview of the cell being edited (useFormulaLogic.js, effectiveDisplayValues)
VARIABLES
    editingCell,   \* the coordinate [x, y] being edited, Null when none is
    inputValue,    \* the text of the input bar
    previewValue   \* what evaluateContentForDisplay returned for it

\* One call of a function of coords.js or of extractRefs
VARIABLES
    uIn,        \* the argument of the call
    uOp,        \* the function called last, "none" before any call
    uOut,       \* what the calls returned so far
    lastIndex   \* REF_REGEX.lastIndex

pvars == <<editingCell, inputValue, previewValue>>

uvars == <<uIn, uOp, uOut, lastIndex>>

\* the variables outside the recompute functions and the evaluator
VARIABLES
    history,    \* napkin.history: the snapshots pushHistory kept
    prevCells,  \* prevCellsRef.current of useFormulaLogic, Null before the first render
    lastSave    \* the call of saveCellIfChanged made by the last handler, Null when it made none

svars == <<history, prevCells, lastSave>>

\* The rest of the state of NapkinScreen
VARIABLES
    focused,           \* the focused coordinate [x, y]
    isSwitchingCells,  \* TRUE between onFocusCell and its second timer
    pendingFocus,      \* the coordinate the first timer of onFocusCell will focus, Null when none
    meta,              \* the fields id, name, nameIsCustom of the napkin
    before,            \* for each snapshot of the history, the cells the edit that pushed it found
    lastUndo           \* what undoOnce returned to the last handler, Null when it made no call

nvars == <<focused, isSwitchingCells, pendingFocus, meta, before, lastUndo>>

\* AsyncStorage and the calls of storage.js in progress
VARIABLES
    records,    \* the items 'napkin:<id>': id -> the stored napkin's name, for the ids stored
    index,      \* the item 'napkin:index': the array of entries [id, name]
    calls       \* the calls of storage.js: for each call its function, arguments, position and locals

stvars == <<records, index, calls>>

\* One instance of useAsyncOperation
VARIABLES
    isLoading,     \* the state isLoading
    execute,       \* the value of isLoading in the closure of the current execute
    error,         \* the state error, Null when there is none
    inProgress,    \* the arguments of the calls of operation that have not settled
    lastExecute    \* the last call of execute and how it ended so far, Null before any call

hvars == <<isLoading, execute, error, inProgress, lastExecute>>

avars == <<focused, isSwitchingCells, pendingFocus, meta, before, lastUndo,
           records, index, calls, isLoading, execute, error, inProgress, lastExecute>>

xvars == <<editingCell, inputValue, previewValue, uIn, uOp, uOut, lastIndex,
           history, prevCells, lastSave,
           focused, isSwitchingCells, pendingFocus, meta, before, lastUndo,
           records, index, calls, isLoading, execute, error, inProgress, lastExecute>>

vars == <<cells, previousValues, op, changedKeys, displayValues, graph, affected,
          ePc, eMode, eQueue, eTopKey, eStack, eCallKey, eRet, eMemo, eVisiting,
          eNewValues, eBodyStarts, eTopCount, eSteps,
          editingCell, inputValue, previewValue, uIn, uOp, uOut, lastIndex,
          history, prevCells, lastSave,
          focused, isSwitchingCells, pendingFocus, meta, before, lastUndo,
          records, index, calls, isLoading, execute, error, inProgress, lastExecute>>

\* the input bar and the title of the screen are not in use
EditorIdle ==
    /\ focused = Null
    /\ isSwitchingCells = FALSE
    /\ pendingFocus = Null
    /\ meta = Null
    /\ before = <<>>
    /\ lastUndo = Null

\* nothing is stored and no call of storage.js is in progress
StorageIdle ==
    /\ records = EmptyMap
    /\ index = <<>>
    /\ calls = <<>>

\* no useAsyncOperation is mounted
HookIdle ==
    /\ isLoading = FALSE
    /\ execute = FALSE
    /\ error = Null
    /\ inProgress = <<>>
    /\ lastExecute = Null

AppIdle == EditorIdle /\ StorageIdle /\ HookIdle

\* no screen is mounted
ScreenIdle ==
    /\ history = <<>>
    /\ prevCells = Null
    /\ lastSave = Null

\* nothing is being edited
PreviewIdle ==
    /\ editingCell = Null
    /\ inputValue = <<>>
    /\ previewValue = <<>>

\* no function of coords.js and no extractRefs was called
UtilIdle ==
    /\ uIn = Null
    /\ uOp = "none"
    /\ uOut = Null
    /\ lastIndex = 0

\* no pass has started
EvalIdle ==
    /\ ePc = "idle"
    /\ eMode = "none"
    /\ eQueue = <<>>
    /\ eTopKey = <<>>
    /\ eStack = <<>>
    /\ eCallKey = <<>>
    /\ eRet = <<>>
    /\ eMemo = EmptyMap
    /\ eVisiting = {}
    /\ eNewValues = EmptyMap
    /\ eBodyStarts = [k \in KeyUniverse |-> 0]
    /\ eTopCount = 0
    /\ eSteps = 0

EmptyGraph == [dependents |-> EmptyMap, dependencies |-> EmptyMap]

Init ==
    /\ cells \in Stores
    /\ previousValues \in PreviousChoices(cells)
    /\ op = "none"
    /\ changedKeys = <<>>
    /\ displayValues = EmptyMap
    /\ graph = EmptyGraph
    /\ affected = <<>>
    /\ EvalIdle
    /\ PreviewIdle
    /\ AppIdle
    /\ ScreenIdle
    /\ UtilIdle

\* displayValues = computeAllDisplayValues(cells)
ComputeAll ==
    /\ displayValues' = computeAllDisplayValues(cells)
    /\ op' = "all"
    /\ changedKeys' = <<>>
    /\ graph' = EmptyGraph
    /\ affected' = <<>>
    /\ UNCHANGED <<cells, previousValues>>
    /\ UNCHANGED evars
    /\ UNCHANGED xvars

\* displayValues = computeUpdatedDisplayValues(cells, previousValues, ck)
ComputeUpdated(ck) ==
    /\ displayValues' = computeUpdatedDisplayValues(cells, previousValues, ck)
    /\ previousValues' = previousValuesAfter(cells, previousValues, ck)
    /\ op' = "updated"
    /\ changedKeys' = ck
    /\ graph' = buildDependencyGraph(cells)
    /\ affected' = getAffectedCells(ck, graph')
    /\ UNCHANGED cells
    /\ UNCHANGED evars
    /\ UNCHANGED xvars

Next ==
    \/ ComputeAll
    \/ \E ck \in ChangedChoices : ComputeUpdated(ck)

Spec == Init /\ [][Next]_vars

\* ------------------------------------------------------------------------
\* The recompute functions on stores with text cells and empty cells
\* ------------------------------------------------------------------------
TextA1 == { <<"h","e","l","l","o">>, <<"A","1","+","B","1">>, <<>> }
TextB1 == { Absent, <<"=","A","1","+","1">>, <<"B","1">> }
TextC1 == { Absent, <<"=","A","1","+","B","1">>, <<>> }
TextD1 == { Absent, <<"=","C","1">> }

\* stores whose cells hold text with reference-shaped tokens, or nothing
TextStores ==
    { Store4(a, b, c, d) : a \in TextA1, b \in TextB1, c \in TextC1, d \in TextD1 }

TextInit ==
    /\ cells \in TextStores
    /\ previousValues \in { EmptyMap, StrayValues }
    /\ op = "none"
    /\ changedKeys = <<>>
    /\ displayValues = EmptyMap
    /\ graph = EmptyGraph
    /\ affected = <<>>
    /\ EvalIdle
    /\ PreviewIdle
    /\ AppIdle
    /\ ScreenIdle
    /\ UtilIdle

TextSpec == TextInit /\ [][Next]_vars

\* ------------------------------------------------------------------------
\* useFormulaLogic.js: the preview of the cell in edition
\* ------------------------------------------------------------------------
\* the columns of the cells A1 .. E1, E1 being a coordinate without a cell
PreviewColumns == { GRID_MIN, GRID_MIN + 1, GRID_MIN + 2, GRID_MIN + 3, GRID_MIN + 4 }

\* the texts typed into the editor
InputValues ==
    { <<>>, <<"h","e","l","l","o">>, <<"5">>, <<"=","A","1","*","2">>,
      <<"=","B","1","+","A","1">>, <<"=","D","1","+","1">>, <<"=","2","+">>,
      <<"=","E","1","+","C","1">> }

PreviewInit ==
    /\ cells \in Stores
    /\ previousValues = EmptyMap
    /\ op = "none"
    /\ changedKeys = <<>>
    /\ displayValues = EmptyMap
    /\ graph = EmptyGraph
    /\ affected = <<>>
    /\ EvalIdle
    /\ PreviewIdle
    /\ AppIdle
    /\ ScreenIdle
    /\ UtilIdle

\* useFormulaLogic.js effectiveDisplayValues: the cell (x, y) is in edition
\* with the text content, its preview is
\* evaluateContentForDisplay(cells, editingCell.x, editingCell.y, inputValue)
Preview(x, y, content) ==
    /\ editingCell' = [x |-> x, y |-> y]
    /\ inputValue' = content
    /\ previewValue' = evaluateContentForDisplay(cells, x, y, content)
    /\ UNCHANGED fvars
    /\ UNCHANGED evars
    /\ UNCHANGED uvars
    /\ UNCHANGED <<svars, avars>>

PreviewNext == \E x \in PreviewColumns, content \in InputValues : Preview(x, GRID_MAX, content)

PreviewSpec == PreviewInit /\ [][PreviewNext]_vars

\* ------------------------------------------------------------------------
\* computeDisplayValues and computeUpdatedDisplayValues with arguments left out
\* ------------------------------------------------------------------------
\* the changedKeys argument: not passed, empty, one key, two keys
ChangedArgs ==
    { NotPassed(<<>>), Passed(<<>>), Passed(<<KeyA1>>), Passed(<<KeyC1, KeyB1>>) }

\* the previousValues argument: the object previousValues, passed or not
PreviousArg(passed) == [present |-> passed, v |-> previousValues]

\* displayValues = computeDisplayValues(cells, previousValues, changedKeys)
ComputeDisplayValues(passed, ck) ==
    /\ displayValues' = computeDisplayValues(cells, PreviousArg(passed), ck)
    /\ op' = IF passed THEN "dispatch" ELSE "dispatchNoPrevious"
    /\ changedKeys' = ck.v
    /\ UNCHANGED <<cells, previousValues, graph, affected>>
    /\ UNCHANGED evars
    /\ UNCHANGED xvars

\* displayValues = computeUpdatedDisplayValues(cells, previousValues, changedKeys),
\* called directly
ComputeUpdatedDefaults(passed, ck) ==
    /\ displayValues' = computeUpdatedDisplayValuesDefaults(cells, PreviousArg(passed), ck)
    /\ op' = IF passed THEN "updatedDirect" ELSE "updatedNoPrevious"
    /\ changedKeys' = ck.v
    /\ UNCHANGED <<cells, previousValues, graph, affected>>
    /\ UNCHANGED evars
    /\ UNCHANGED xvars

DispatchNext ==
    \/ \E passed \in BOOLEAN, ck \in ChangedArgs : ComputeDisplayValues(passed, ck)
    \/ \E passed \in BOOLEAN, ck \in ChangedArgs : ComputeUpdatedDefaults(passed, ck)

DispatchSpec == Init /\ [][DispatchNext]_vars

\* ------------------------------------------------------------------------
\* The evaluator, statement by statement
\* ------------------------------------------------------------------------
EvalInit ==
    /\ cells \in Stores
    /\ previousValues \in { EmptyMap, StrayValues }
    /\ op = "none"
    /\ changedKeys = <<>>
    /\ displayValues = EmptyMap
    /\ graph = EmptyGraph
    /\ affected = <<>>
    /\ EvalIdle
    /\ PreviewIdle
    /\ AppIdle
    /\ ScreenIdle
    /\ UtilIdle

\* computeAllDisplayValues: const memo = {}; for (const key of Object.keys(cells))
StartFull ==
    /\ ePc = "idle"
    /\ ePc' = "next"
    /\ eMode' = "all"
    /\ eQueue' = cells.order
    /\ eTopCount' = Len(cells.order)
    /\ eMemo' = EmptyMap
    /\ eSteps' = eSteps + 1
    /\ UNCHANGED <<eTopKey, eStack, eCallKey, eRet, eVisiting, eNewValues, eBodyStarts>>
    /\ UNCHANGED fvars
    /\ UNCHANGED xvars

\* computeUpdatedDisplayValues up to its loop: the graph, the affected keys,
\* newValues = { ...previousValues }, memo = {}, visiting = new Set()
StartSelective(ck) ==
    /\ ePc = "idle"
    /\ ePc' = "next"
    /\ eMode' = "updated"
    /\ changedKeys' = ck
    /\ graph' = buildDependencyGraph(cells)
    /\ affected' = getAffectedCells(ck, graph')
    /\ eQueue' = affected'
    /\ eTopCount' = Len(affected')
    /\ eNewValues' = previousValues
    /\ eMemo' = EmptyMap
    /\ eVisiting' = {}
    /\ eSteps' = eSteps + 1
    /\ UNCHANGED <<eTopKey, eStack, eCallKey, eRet, eBodyStarts>>
    /\ UNCHANGED <<cells, previousValues, op, displayValues>>
    /\ UNCHANGED xvars

\* the loop of the pass calls getDisplayValueForCell for its next key; the
\* full recompute passes a new Set() as visiting, the selective one its own
NextKey ==
    /\ ePc = "next"
    /\ eQueue # <<>>
    /\ ePc' = "call"
    /\ eTopKey' = Head(eQueue)
    /\ eCallKey' = Head(eQueue)
    /\ eQueue' = Tail(eQueue)
    /\ eVisiting' = IF eMode = "all" THEN {} ELSE eVisiting
    /\ eSteps' = eSteps + 1
    /\ UNCHANGED <<eMode, eStack, eRet, eMemo, eNewValues, eBodyStarts, eTopCount>>
    /\ UNCHANGED fvars
    /\ UNCHANGED xvars

\* the loop of the pass is over: return memo, or return newValues
PassDone ==
    /\ ePc = "next"
    /\ eQueue = <<>>
    /\ ePc' = "done"
    /\ displayValues' = IF eMode = "all" THEN eMemo ELSE eNewValues
    /\ op' = eMode
    /\ eSteps' = eSteps + 1
    /\ UNCHANGED <<eMode, eQueue, eTopKey, eStack, eCallKey, eRet, eMemo, eVisiting,
                   eNewValues, eBodyStarts, eTopCount>>
    /\ UNCHANGED <<cells, previousValues, changedKeys, graph, affected>>
    /\ UNCHANGED xvars

\* a call that returns without evaluating a formula body: value v, memo[key] = v
ReturnValue(v) ==
    /\ ePc' = "ret"
    /\ eRet' = v
    /\ eMemo' = Put(eMemo, eCallKey, v)
    /\ eSteps' = eSteps + 1
    /\ UNCHANGED <<eMode, eQueue, eTopKey, eStack, eCallKey, eVisiting, eNewValues,
                   eBodyStarts, eTopCount>>
    /\ UNCHANGED fvars
    /\ UNCHANGED xvars

\* if (memo[key] !== undefined) return memo[key]
CallMemoHit ==
    /\ ePc = "call"
    /\ eCallKey \in DOMAIN eMemo
    /\ ReturnValue(eMemo[eCallKey])

\* if (!cell || !cell.content) { memo[key] = ''; return '' }
CallEmpty ==
    /\ ePc = "call"
    /\ eCallKey \notin DOMAIN eMemo
    /\ IF HasKey(cells, eCallKey) THEN cells.cell[eCallKey].content = <<>> ELSE TRUE
    /\ ReturnValue(<<>>)

\* if (!content.startsWith('=')) { memo[key] = content; return content }
CallLiteral ==
    /\ ePc = "call"
    /\ eCallKey \notin DOMAIN eMemo
    /\ HasKey(cells, eCallKey)
    /\ cells.cell[eCallKey].content # <<>>
    /\ ~IsFormula(cells.cell[eCallKey].content)
    /\ ReturnValue(cells.cell[eCallKey].content)

\* the test of the cycle guard: visiting.has(key)
visitingHas(visiting, key) == key \in visiting

\* if (visiting.has(key)) { memo[key] = ERROR_VALUE; return ERROR_VALUE }
CallCycle ==
    /\ ePc = "call"
    /\ eCallKey \notin DOMAIN eMemo
    /\ HasKey(cells, eCallKey)
    /\ IsFormula(cells.cell[eCallKey].content)
    /\ visitingHas(eVisiting, eCallKey)
    /\ ReturnValue(ERROR_VALUE)

\* visiting.add(key); refs = extractRefs(formula); scope = {}: the body starts
CallBody ==
    /\ ePc = "call"
    /\ eCallKey \notin DOMAIN eMemo
    /\ HasKey(cells, eCallKey)
    /\ IsFormula(cells.cell[eCallKey].content)
    /\ ~visitingHas(eVisiting, eCallKey)
    /\ ePc' = "loop"
    /\ eVisiting' = eVisiting \cup {eCallKey}
    /\ eStack' = Append(eStack,
                        [key   |-> eCallKey,
                         refs  |-> extractRefs(Tail(cells.cell[eCallKey].content)),
                         i     |-> 1,
                         scope |-> EmptyMap])
    /\ eBodyStarts' = [eBodyStarts EXCEPT ![eCallKey] = @ + 1]
    /\ eSteps' = eSteps + 1
    /\ UNCHANGED <<eMode, eQueue, eTopKey, eCallKey, eRet, eMemo, eNewValues, eTopCount>>
    /\ UNCHANGED fvars
    /\ UNCHANGED xvars

TopFrame == eStack[Len(eStack)]

\* for (const ref of refs): an unresolvable ref is bound to 0, a resolved one
\* is evaluated by a nested call
LoopRef ==
    /\ ePc = "loop"
    /\ TopFrame.i <= Len(TopFrame.refs)
    /\ LET ref == TopFrame.refs[TopFrame.i]
           xy  == cellRefToXY(ref)
       IN  IF xy = Null
           THEN /\ eStack' = [eStack EXCEPT ![Len(eStack)] =
                                [@ EXCEPT !.scope = Put(@, ref, DEFAULT_NUMERIC_VALUE),
                                          !.i = @ + 1]]
                /\ UNCHANGED <<ePc, eCallKey>>
           ELSE /\ ePc' = "call"
                /\ eCallKey' = coordKey(xy.x, xy.y)
                /\ UNCHANGED eStack
    /\ eSteps' = eSteps + 1
    /\ UNCHANGED <<eMode, eQueue, eTopKey, eRet, eMemo, eVisiting, eNewValues,
                   eBodyStarts, eTopCount>>
    /\ UNCHANGED fvars
    /\ UNCHANGED xvars

\* the nested call returned: scope[ref] = Number.isFinite(numeric) ? numeric : 0
ReturnToBody ==
    /\ ePc = "ret"
    /\ eStack # <<>>
    /\ ePc' = "loop"
    /\ eStack' = [eStack EXCEPT ![Len(eStack)] =
                    [@ EXCEPT !.scope = Put(@, TopFrame.refs[TopFrame.i], NumericOf(eRet)),
                              !.i = @ + 1]]
    /\ eSteps' = eSteps + 1
    /\ UNCHANGED <<eMode, eQueue, eTopKey, eCallKey, eRet, eMemo, eVisiting,
                   eNewValues, eBodyStarts, eTopCount>>
    /\ UNCHANGED fvars
    /\ UNCHANGED xvars

\* the call made by the loop of the pass returned; the selective recompute
\* stores the result: newValues[key] = result
ReturnToPass ==
    /\ ePc = "ret"
    /\ eStack = <<>>
    /\ ePc' = "next"
    /\ eNewValues' = IF eMode = "updated" THEN Put(eNewValues, eTopKey, eRet)
                     ELSE eNewValues
    /\ eSteps' = eSteps + 1
    /\ UNCHANGED <<eMode, eQueue, eTopKey, eStack, eCallKey, eRet, eMemo, eVisiting,
                   eBodyStarts, eTopCount>>
    /\ UNCHANGED fvars
    /\ UNCHANGED xvars

\* FinishBody without memo[key] = v
FinishBody_NoMemo(v) ==
    /\ ePc' = "ret"
    /\ eRet' = v
    /\ eVisiting' = eVisiting \ {eStack[Len(eStack)].key}
    /\ eStack' = SubSeq(eStack, 1, Len(eStack) - 1)
    /\ eSteps' = eSteps + 1
    /\ UNCHANGED <<eMode, eQueue, eTopKey, eCallKey, eNewValues, eBodyStarts, eTopCount,
                   eMemo>>
    /\ UNCHANGED fvars
    /\ UNCHANGED xvars

\* the end of the body: v is memoised, key leaves visiting, the call returns v
FinishBody(v) ==
    /\ ePc' = "ret"
    /\ eRet' = v
    /\ eMemo' = Put(eMemo, TopFrame.key, v)
    /\ eVisiting' = eVisiting \ {TopFrame.key}
    /\ eStack' = SubSeq(eStack, 1, Len(eStack) - 1)
    /\ eSteps' = eSteps + 1
    /\ UNCHANGED <<eMode, eQueue, eTopKey, eCallKey, eNewValues, eBodyStarts, eTopCount>>
    /\ UNCHANGED fvars
    /\ UNCHANGED xvars

\* the try block without visiting.delete(key)
BodySuccess_NoDelete ==
    /\ ePc = "loop"
    /\ eStack[Len(eStack)].i > Len(eStack[Len(eStack)].refs)
    /\ ~MathEvaluate(Tail(cells.cell[eStack[Len(eStack)].key].content),
                     eStack[Len(eStack)].scope).thrown
    /\ ePc' = "ret"
    /\ eRet' = StringOf(MathEvaluate(Tail(cells.cell[eStack[Len(eStack)].key].content),
                                     eStack[Len(eStack)].scope))
    /\ eMemo' = Put(eMemo, eStack[Len(eStack)].key, eRet')
    /\ eStack' = SubSeq(eStack, 1, Len(eStack) - 1)
    /\ eSteps' = eSteps + 1
    /\ UNCHANGED <<eMode, eQueue, eTopKey, eCallKey, eNewValues, eBodyStarts, eTopCount,
                   eVisiting>>
    /\ UNCHANGED fvars
    /\ UNCHANGED xvars

\* try { result = math.evaluate(expr, scope); memo[key] = String(result); ... }
BodySuccess ==
    /\ ePc = "loop"
    /\ TopFrame.i > Len(TopFrame.refs)
    /\ LET result == MathEvaluate(Tail(cells.cell[TopFrame.key].content), TopFrame.scope)
       IN  /\ ~result.thrown
           /\ FinishBody(StringOf(result))

\* the catch block without visiting.delete(key)
BodyThrow_NoDelete ==
    /\ ePc = "loop"
    /\ eStack[Len(eStack)].i > Len(eStack[Len(eStack)].refs)
    /\ MathEvaluate(Tail(cells.cell[eStack[Len(eStack)].key].content),
                    eStack[Len(eStack)].scope).thrown
    /\ ePc' = "ret"
    /\ eRet' = ERROR_VALUE
    /\ eMemo' = Put(eMemo, eStack[Len(eStack)].key, ERROR_VALUE)
    /\ eStack' = SubSeq(eStack, 1, Len(eStack) - 1)
    /\ eSteps' = eSteps + 1
    /\ UNCHANGED <<eMode, eQueue, eTopKey, eCallKey, eNewValues, eBodyStarts, eTopCount,
                   eVisiting>>
    /\ UNCHANGED fvars
    /\ UNCHANGED xvars

\* catch (e) { memo[key] = ERROR_VALUE; visiting.delete(key); return ERROR_VALUE }
BodyThrow ==
    /\ ePc = "loop"
    /\ TopFrame.i > Len(TopFrame.refs)
    /\ MathEvaluate(Tail(cells.cell[TopFrame.key].content), TopFrame.scope).thrown
    /\ FinishBody(ERROR_VALUE)

EvalNext ==
    \/ StartFull
    \/ \E ck \in ChangedChoices : StartSelective(ck)
    \/ NextKey
    \/ PassDone
    \/ CallMemoHit
    \/ CallEmpty
    \/ CallLiteral
    \/ CallCycle
    \/ CallBody
    \/ LoopRef
    \/ ReturnToBody
    \/ ReturnToPass
    \/ BodySuccess
    \/ BodyThrow

EvalSpec == EvalInit /\ [][EvalNext]_vars

\* ------------------------------------------------------------------------
\* coords.js and extractRefs, one call at a time
\* ------------------------------------------------------------------------
\* the texts passed to cellRefToXY
RefTexts ==
    { <<"A","1">>,
      <<"A","D","3","0">>,
      <<"B","2">>,
      <<"Z","9","9">>,
      <<"A","E","1">>,
      <<"A","3","1">>,
      <<"a","1">>,
      <<"A","0","1">>,
      <<"1","2">>,
      <<"A","B">>,
      <<" ","A","1">>,
      <<"A","1"," ">>,
      <<"A"," ","1">>,
      <<"$","A","1">>,
      <<"A","1","x">>,
      <<"A","1",":","B","2">>,
      <<>> }

\* the values passed to cellRefToXY
RefValues ==
    { JsString(t) : t \in RefTexts }
        \cup { JsNull, JsUndefined, JsNumber(TRUE), JsNumber(FALSE), JsObject }

\* the texts passed to extractRefs
FormulaTexts ==
    { <<"S","U","M","(","A","1",",","B","2",")","+","A","1">>,
      <<"A","1","B","2">>,
      <<"x","A","1">>,
      <<"A","1","+","B","2","*","A","1">>,
      <<"A","0","1","+","a","1">>,
      <<"A","A","1","0","-","A","1">>,
      <<"A","1","_","B","2">>,
      <<>>,
      <<"B","2"," ","A","1"," ","B","2">>,
      <<"A","1",":","A","1","0">> }

\* the arguments of the calls: an in-bounds coordinate, a value for
\* cellRefToXY, a formula text
UtilInputs ==
    { [kind |-> "xy", x |-> x, y |-> y] : x \in GRID_MIN..GRID_MAX, y \in GRID_MIN..GRID_MAX }
        \cup { [kind |-> "value", v |-> v] : v \in RefValues }
        \cup { [kind |-> "formula", s |-> t] : t \in FormulaTexts }

\* no recompute was called
FormulaIdle ==
    /\ cells = EmptyCells
    /\ previousValues = EmptyMap
    /\ op = "none"
    /\ changedKeys = <<>>
    /\ displayValues = EmptyMap
    /\ graph = EmptyGraph
    /\ affected = <<>>

UtilInit ==
    /\ uIn \in UtilInputs
    /\ uOp = "none"
    /\ uOut = Null
    /\ lastIndex = 0
    /\ FormulaIdle
    /\ EvalIdle
    /\ PreviewIdle
    /\ AppIdle
    /\ ScreenIdle

\* uOut = xyToCellRef(x, y)
XyToCellRef ==
    /\ uOp = "none"
    /\ uIn.kind = "xy"
    /\ uOut' = xyToCellRef(uIn.x, uIn.y)
    /\ uOp' = "xyToCellRef"
    /\ UNCHANGED <<uIn, lastIndex>>
    /\ UNCHANGED <<fvars, evars, pvars, svars, avars>>

\* uOut = cellRefToXY(ref), ref being the label xyToCellRef returned
CellRefToXYBack ==
    /\ uOp = "xyToCellRef"
    /\ uOut' = cellRefToXYValue(JsString(uOut))
    /\ uOp' = "xyToCellRef.cellRefToXY"
    /\ UNCHANGED <<uIn, lastIndex>>
    /\ UNCHANGED <<fvars, evars, pvars, svars, avars>>

\* uOut = cellRefToXY(value)
CellRefToXY ==
    /\ uOp = "none"
    /\ uIn.kind = "value"
    /\ uOut' = cellRefToXYValue(uIn.v)
    /\ uOp' = "cellRefToXY"
    /\ UNCHANGED <<uIn, lastIndex>>
    /\ UNCHANGED <<fvars, evars, pvars, svars, avars>>

\* uOut = coordKey(x, y)
CoordKey ==
    /\ uOp = "none"
    /\ uIn.kind = "xy"
    /\ uOut' = coordKey(uIn.x, uIn.y)
    /\ uOp' = "coordKey"
    /\ UNCHANGED <<uIn, lastIndex>>
    /\ UNCHANGED <<fvars, evars, pvars, svars, avars>>

\* uOut = parseCoordKey(key), key being what coordKey returned
ParseCoordKey ==
    /\ uOp = "coordKey"
    /\ uOut' = parseCoordKey(uOut)
    /\ uOp' = "coordKey.parseCoordKey"
    /\ UNCHANGED <<uIn, lastIndex>>
    /\ UNCHANGED <<fvars, evars, pvars, svars, avars>>

\* uOut = extractRefs(formula), a first and then a second time.  REF_REGEX
\* is one global regular expression: exec starts at lastIndex, and the loop
\* ends on the exec that finds nothing, which sets lastIndex to 0
ExtractRefs ==
    /\ uOp \in {"none", "extractRefs"}
    /\ uIn.kind = "formula"
    /\ uOut' = extractRefsLoop(uIn.s, lastIndex + 1, <<>>)
    /\ lastIndex' = 0
    /\ uOp' = IF uOp = "none" THEN "extractRefs" ELSE "extractRefs.extractRefs"
    /\ UNCHANGED uIn
    /\ UNCHANGED <<fvars, evars, pvars, svars, avars>>

UtilNext ==
    \/ XyToCellRef
    \/ CellRefToXYBack
    \/ CellRefToXY
    \/ CoordKey
    \/ ParseCoordKey
    \/ ExtractRefs

UtilSpec == UtilInit /\ [][UtilNext]_vars

\* ------------------------------------------------------------------------
\* grid.js, one call at a time: setCell, expandIfAllowed,
\* pruneAdjacentIsolatedEmpties
\* ------------------------------------------------------------------------
\* setCell unless the content is Absent or the coordinate is out of bounds
setCellIn(c, x, y, content) ==
    IF content = Absent \/ ~withinBounds(x, y) THEN c ELSE setCell(c, x, y, content)

\* a store around (x, y): the cell itself, its four neighbours, and three
\* cells two steps away
PatchNear(x, y, centre, top, right, bottom, left) ==
    setCellIn(setCellIn(setCellIn(setCellIn(setCellIn(EmptyCells,
        x, y, centre), x, y + 1, top), x + 1, y, right), x, y - 1, bottom),
        x - 1, y, left)

PatchStore(x, y, near, above, diagonal, far) ==
    setCellIn(setCellIn(setCellIn(near,
        x, y + 2, above), x + 1, y + 1, diagonal), x - 2, y, far)

\* the coordinates the functions are called on: the origin, the top right
\* corner, the left edge, and a cell next to the right edge
GridCentres ==
    { [x |-> 0, y |-> 0], [x |-> GRID_MAX, y |-> GRID_MAX],
      [x |-> GRID_MIN, y |-> 3], [x |-> GRID_MAX - 1, y |-> 0] }

GridInputs ==
    { [kind |-> "grid", x |-> p.x, y |-> p.y, ref |-> 1,
       heap |-> << PatchStore(p.x, p.y,
                              PatchNear(p.x, p.y, centre, top, right, bottom, left),
                              above, diagonal, far) >>] :
        p \in GridCentres,
        centre \in { Absent, <<>>, <<"7">> },
        top \in { Absent, <<>>, <<" ">>, <<"7">> },
        right \in { Absent, <<>>, <<"7">> },
        bottom \in { Absent, <<>>, <<"7">> },
        left \in { Absent, <<>>, <<"7">> },
        above \in { Absent, <<"7">> },
        diagonal \in { Absent, <<"=","1">> },
        far \in { Absent, <<>> } }

GridInit ==
    /\ uIn \in GridInputs
    /\ uOp = "none"
    /\ uOut = Null
    /\ lastIndex = 0
    /\ FormulaIdle
    /\ EvalIdle
    /\ PreviewIdle
    /\ AppIdle
    /\ ScreenIdle

\* uOut = setCell(cells, x, y, content)
SetCell(content) ==
    /\ uOp = "none"
    /\ uOut' = setCellRef(uIn.heap, uIn.ref, uIn.x, uIn.y, content)
    /\ uOp' = "setCell"
    /\ UNCHANGED <<uIn, lastIndex>>
    /\ UNCHANGED <<fvars, evars, pvars, svars, avars>>

\* uOut = expandIfAllowed(cells, x, y)
ExpandIfAllowed ==
    /\ uOp = "none"
    /\ uOut' = expandIfAllowedRef(uIn.heap, uIn.ref, uIn.x, uIn.y)
    /\ uOp' = "expandIfAllowed"
    /\ UNCHANGED <<uIn, lastIndex>>
    /\ UNCHANGED <<fvars, evars, pvars, svars, avars>>

\* uOut = pruneAdjacentIsolatedEmpties(cells, x, y)
PruneAdjacentIsolatedEmpties ==
    /\ uOp = "none"
    /\ uOut' = pruneAdjacentIsolatedEmptiesRef(uIn.heap, uIn.ref, uIn.x, uIn.y)
    /\ uOp' = "pruneAdjacentIsolatedEmpties"
    /\ UNCHANGED <<uIn, lastIndex>>
    /\ UNCHANGED <<fvars, evars, pvars, svars, avars>>

\* the functions of formula.js that take the store and only read it
ReadingFunctions ==
    { "getDisplayValueForCell", "computeAllDisplayValues", "buildDependencyGraph",
      "computeUpdatedDisplayValues" }

\* uOut = fn(cells, ...): no statement of fn assigns to cells
ReadStore(fn) ==
    /\ uOp = "none"
    /\ uOut' = [heap |-> uIn.heap, ref |-> uIn.ref,
                value |-> readResult(fn, uIn.heap[uIn.ref], uIn.x, uIn.y)]
    /\ uOp' = fn
    /\ UNCHANGED <<uIn, lastIndex>>
    /\ UNCHANGED <<fvars, evars, pvars, svars, avars>>

\* uOut = evaluateContentForDisplay(cells, x, y, content)
EvaluateContentForDisplay(content) ==
    /\ uOp = "none"
    /\ uOut' = evaluateContentForDisplayRef(uIn.heap, uIn.ref, uIn.x, uIn.y, content)
    /\ uOp' = "evaluateContentForDisplay"
    /\ UNCHANGED <<uIn, lastIndex>>
    /\ UNCHANGED <<fvars, evars, pvars, svars, avars>>

GridNext ==
    \/ \E content \in { <<>>, <<" ">>, <<"7">> } : SetCell(content)
    \/ ExpandIfAllowed
    \/ PruneAdjacentIsolatedEmpties
    \/ \E fn \in ReadingFunctions : ReadStore(fn)
    \/ \E content \in { <<"7">>, <<"=","7","*","2">> } : EvaluateContentForDisplay(content)

GridSpec == GridInit /\ [][GridNext]_vars

\* ------------------------------------------------------------------------
\* NapkinScreen.js: the screen, submit by submit and undo by undo, each
\* followed by the render of useFormulaLogic
\* ------------------------------------------------------------------------
\* number of snapshots in the history of a napkin
MaxSaves == 3

\* '1' submitted in (i, 0), then (i - 1, 0) cleared
WalkStep(c, i) == savedCells(savedCells(c, i, 0, <<"1">>), i - 1, 0, <<>>)

RECURSIVE WalkFrom(_, _, _)
\* the walk from (i, 0) to (n, 0), starting from store c
WalkFrom(c, i, n) ==
    IF i > n \/ c.order = <<>> THEN c
    ELSE WalkFrom(WalkStep(c, i), i + 1, n)

\* the store of a napkin in which the user walked from the origin to
\* (n, 0): '1' submitted in (0, 0), then for each next cell to the right
\* '1' submitted in it and the cell before it cleared
WalkStore(n) == WalkFrom(savedCells(createInitialCells, 0, 0, <<"1">>), 1, n)

\* the stores of the napkins that are opened: a new napkin, and a napkin
\* in which the user walked to the cell next to the right edge
LoadedStores == { createInitialCells, WalkStore(GRID_MAX - 1) }

\* the cells that get the focus: the origin, the cell to its right, the cell
\* next to the right edge, and the cell on the right edge
FocusChoices ==
    { [x |-> 0, y |-> 0], [x |-> 1, y |-> 0],
      [x |-> GRID_MAX - 1, y |-> 0], [x |-> GRID_MAX, y |-> 0] }

\* the texts that are submitted
SubmitContents ==
    { <<>>, <<" ">>, <<"5">>, <<"=">>,
      <<"=">> \o xyToCellRef(1, 0) \o <<"+","1">>,
      <<"=">> \o xyToCellRef(0, 0) \o <<"*","2">> }

\* NapkinScreen mounted on a napkin without history, after the first render:
\* changedKeys is null and displayValues is computeDisplayValues(cells)
ScreenInit ==
    /\ cells \in LoadedStores
    /\ history = <<>>
    /\ prevCells = cells
    /\ changedKeys = <<>>
    /\ displayValues = computeDisplayValues(cells, NotPassed(EmptyMap), NotPassed(<<>>))
    /\ previousValues = displayValues
    /\ op = "render"
    /\ graph = EmptyGraph
    /\ affected = <<>>
    /\ lastSave = Null
    /\ EvalIdle
    /\ PreviewIdle
    /\ AppIdle
    /\ UtilIdle

\* the render of useFormulaLogic after setState: changedKeys, displayValues,
\* prevDisplayValuesRef.current = result, prevCellsRef.current = cells
Render ==
    /\ changedKeys' = changedKeysOf(cells', prevCells)
    /\ displayValues' = renderValues(cells', previousValues, changedKeys')
    /\ previousValues' = displayValues'
    /\ prevCells' = cells'
    /\ op' = "render"

\* what saveCellIfChanged(x, y, newContent) did
SaveRecord(x, y, newContent, saved) ==
    [x |-> x, y |-> y, prevContent |-> prevContentOf(cells, x, y),
     newContent |-> newContent, saved |-> saved,
     change |-> IF saved THEN gridChange(prevContentOf(cells, x, y), newContent)
                ELSE "none",
     onSaveNapkin |-> saved]

\* submit on the focused cell (x, y): saveCellIfChanged(x, y, inputValue)
Submit(x, y, newContent) ==
    /\ hasCell(cells, x, y)
    /\ Len(history) < MaxSaves
    /\ IF prevContentOf(cells, x, y) = newContent
       THEN /\ lastSave' = SaveRecord(x, y, newContent, FALSE)
            /\ UNCHANGED <<cells, history, changedKeys, displayValues,
                           previousValues, prevCells, op>>
       ELSE /\ history' = pushHistory(history, cells)
            /\ cells' = savedCells(cells, x, y, newContent)
            /\ lastSave' = SaveRecord(x, y, newContent, TRUE)
            /\ Render
    /\ UNCHANGED <<graph, affected>>
    /\ UNCHANGED <<evars, pvars, uvars, avars>>

\* onUndo: undoOnce(state), nothing when the history is empty
Undo ==
    /\ Len(history) > 0
    /\ cells' = parse(history[Len(history)])
    /\ history' = SubSeq(history, 1, Len(history) - 1)
    /\ lastSave' = Null
    /\ Render
    /\ UNCHANGED <<graph, affected>>
    /\ UNCHANGED <<evars, pvars, uvars, avars>>

ScreenNext ==
    \/ \E p \in FocusChoices, newContent \in SubmitContents : Submit(p.x, p.y, newContent)
    \/ Undo

ScreenSpec == ScreenInit /\ [][ScreenNext]_vars

\* ------------------------------------------------------------------------
\* NapkinScreen.js with its input bar: focus, input, submit, undo, rename.
\* onSaveNapkin is taken to settle before the next handler runs.
\* ------------------------------------------------------------------------
\* createEmptyNapkin: id, name: 'Untitled', nameIsCustom: false
NewNapkinMeta ==
    [id |-> <<"1">>, name |-> <<"U","n","t","i","t","l","e","d">>, nameIsCustom |-> FALSE]

\* the texts typed in the input bar
TypedTexts == { <<>>, <<"5">>, <<"7">> }

\* the cells that are tapped: the origin and the cell to its right
TappedCells == { [x |-> 0, y |-> 0], [x |-> 1, y |-> 0] }

\* number of snapshots in the history of the napkin being edited
MaxEdits == 3

\* the names typed in the rename dialog
TypedNames == { <<" ">>, <<" ","N"," ">> }

\* NapkinScreen mounted on a new napkin, after the first render and the
\* focus effect: the origin is focused and in edition, the input bar holds
\* its content
EditorInit ==
    /\ cells = createInitialCells
    /\ history = <<>>
    /\ before = <<>>
    /\ meta = NewNapkinMeta
    /\ focused = [x |-> 0, y |-> 0]
    /\ editingCell = [x |-> 0, y |-> 0]
    /\ inputValue = prevContentOf(cells, 0, 0)
    /\ previewValue = <<>>
    /\ isSwitchingCells = FALSE
    /\ pendingFocus = Null
    /\ lastSave = Null
    /\ lastUndo = Null
    /\ prevCells = cells
    /\ changedKeys = <<>>
    /\ displayValues = computeDisplayValues(cells, NotPassed(EmptyMap), NotPassed(<<>>))
    /\ previousValues = displayValues
    /\ op = "render"
    /\ graph = EmptyGraph
    /\ affected = <<>>
    /\ EvalIdle
    /\ UtilIdle
    /\ StorageIdle
    /\ HookIdle

\* the test of saveCellIfChanged replaced by true: every call saves
contentChanged_Always(prevContent, newContent) == TRUE

\* !(prevContent === newContent)
contentChanged(prevContent, newContent) == prevContent # newContent

\* the cells found by the edits whose snapshots the history keeps
beforeAfterSave ==
    IF Len(before) >= MAX_HISTORY THEN Append(Tail(before), cells)
    ELSE Append(before, cells)

\* saveCellIfChanged(x, y, newContent): return false when the content is the
\* cell's, else pushHistory, setCell, expansion or pruning, setState and
\* onSaveNapkin, followed by the render
saveCellIfChanged(x, y, newContent) ==
    IF contentChanged(prevContentOf(cells, x, y), newContent)
    THEN /\ history' = pushHistory(history, cells)
         /\ before' = beforeAfterSave
         /\ cells' = savedCells(cells, x, y, newContent)
         /\ lastSave' = SaveRecord(x, y, newContent, TRUE)
         /\ Render
    ELSE /\ lastSave' = SaveRecord(x, y, newContent, FALSE)
         /\ UNCHANGED <<cells, history, before, changedKeys, displayValues,
                        previousValues, prevCells, op>>

\* onChangeInput(text)
OnChangeInput(text) ==
    /\ text # inputValue
    /\ inputValue' = text
    /\ lastSave' = Null
    /\ lastUndo' = Null
    /\ UNCHANGED <<editingCell, previewValue, history, prevCells>>
    /\ UNCHANGED <<focused, isSwitchingCells, pendingFocus, meta, before>>
    /\ UNCHANGED <<fvars, evars, uvars, stvars, hvars>>

\* onFocusCell(x, y) on a cell of the canvas other than the focused one:
\* the input is cleared, isSwitchingCells is set, the first timer is started
OnFocusCell(x, y) ==
    /\ hasCell(cells, x, y)
    /\ focused # [x |-> x, y |-> y]
    /\ pendingFocus = Null
    /\ ~isSwitchingCells
    /\ editingCell' = Null
    /\ inputValue' = <<>>
    /\ isSwitchingCells' = TRUE
    /\ pendingFocus' = [x |-> x, y |-> y]
    /\ lastSave' = Null
    /\ lastUndo' = Null
    /\ UNCHANGED <<previewValue, history, prevCells, focused, meta, before>>
    /\ UNCHANGED <<fvars, evars, uvars, stvars, hvars>>

\* the first timer of onFocusCell: setFocused({ x, y }); the focus effect
\* runs and does nothing, isSwitchingCells being true
FocusTimer ==
    /\ pendingFocus # Null
    /\ focused' = pendingFocus
    /\ pendingFocus' = Null
    /\ lastSave' = Null
    /\ lastUndo' = Null
    /\ UNCHANGED <<editingCell, inputValue, previewValue, history, prevCells>>
    /\ UNCHANGED <<isSwitchingCells, meta, before>>
    /\ UNCHANGED <<fvars, evars, uvars, stvars, hvars>>

\* the second timer of onFocusCell: setIsSwitchingCells(false); the focus
\* effect sets the input to the content of the focused cell and puts the
\* cell in edition
SwitchTimer ==
    /\ isSwitchingCells
    /\ pendingFocus = Null
    /\ isSwitchingCells' = FALSE
    /\ inputValue' = prevContentOf(cells, focused.x, focused.y)
    /\ editingCell' = focused
    /\ lastSave' = Null
    /\ lastUndo' = Null
    /\ UNCHANGED <<previewValue, history, prevCells, focused, pendingFocus, meta, before>>
    /\ UNCHANGED <<fvars, evars, uvars, stvars, hvars>>

\* target = editingCell || focused
submitTarget == IF editingCell # Null THEN editingCell ELSE focused

\* submit: saveCellIfChanged(target.x, target.y, inputValue), then
\* setEditingCell(null), setInputValue('')
SubmitInput ==
    /\ Len(history) < MaxEdits
    /\ saveCellIfChanged(submitTarget.x, submitTarget.y, inputValue)
    /\ editingCell' = Null
    /\ inputValue' = <<>>
    /\ lastUndo' = Null
    /\ UNCHANGED <<graph, affected, previewValue>>
    /\ UNCHANGED <<focused, isSwitchingCells, pendingFocus, meta>>
    /\ UNCHANGED <<evars, uvars, stvars, hvars>>

\* what onUndo does with the result r of undoOnce(state): nothing when
\* changed is false, else setState(undone), onSaveNapkin(undone) and the render
onUndoWith(r) ==
    /\ lastUndo' = [changed |-> r.changed, same |-> r.same,
                    setState |-> r.changed, onSaveNapkin |-> r.changed]
    /\ IF r.changed
       THEN /\ cells' = r.napkin.cells
            /\ history' = r.napkin.history.value
            /\ meta' = r.napkin.meta
            /\ before' = SubSeq(before, 1, Len(before) - 1)
            /\ Render
       ELSE UNCHANGED <<cells, history, meta, before, changedKeys, displayValues,
                        previousValues, prevCells, op>>

\* onUndo
OnUndo ==
    /\ onUndoWith(undoOnce(Napkin(cells, Present(history), meta)))
    /\ lastSave' = Null
    /\ UNCHANGED <<graph, affected>>
    /\ UNCHANGED <<editingCell, inputValue, previewValue>>
    /\ UNCHANGED <<focused, isSwitchingCells, pendingFocus>>
    /\ UNCHANGED <<evars, uvars, stvars, hvars>>

\* commitRename(nextName): nothing when the trimmed name is empty
CommitRename(nextName) ==
    /\ Trim(nextName) # <<>>
    /\ meta' = [meta EXCEPT !.name = Trim(nextName), !.nameIsCustom = TRUE]
    /\ lastSave' = Null
    /\ lastUndo' = Null
    /\ UNCHANGED <<editingCell, inputValue, previewValue, history, prevCells>>
    /\ UNCHANGED <<focused, isSwitchingCells, pendingFocus, before>>
    /\ UNCHANGED <<fvars, evars, uvars, stvars, hvars>>

EditorNext ==
    \/ \E text \in TypedTexts : OnChangeInput(text)
    \/ \E p \in TappedCells : OnFocusCell(p.x, p.y)
    \/ FocusTimer
    \/ SwitchTimer
    \/ SubmitInput
    \/ OnUndo
    \/ \E nextName \in TypedNames : CommitRename(nextName)

EditorSpec == EditorInit /\ [][EditorNext]_vars

\* ------------------------------------------------------------------------
\* undo.js under a long run of edits and undos of one cell, and undoOnce
\* called on a napkin as it comes
\* ------------------------------------------------------------------------
\* the largest number typed in the cell
MaxCount == 53

\* the number the origin holds, 0 when it is empty
originCount == DigitsToNat(prevContentOf(cells, 0, 0), 0)

\* the napkins undoOnce is called on: without history property, with an
\* empty history, with one snapshot
UndoInputs ==
    { Napkin(c, h, NewNapkinMeta) :
        c \in { createInitialCells, savedCells(createInitialCells, 0, 0, <<"5">>) },
        h \in { Missing, Present(<<>>), Present(<< stringify(createInitialCells) >>) } }

HistoryInit ==
    /\ cells = createInitialCells
    /\ history = <<>>
    /\ before = <<>>
    /\ meta = NewNapkinMeta
    /\ focused = [x |-> 0, y |-> 0]
    /\ editingCell = [x |-> 0, y |-> 0]
    /\ inputValue = <<>>
    /\ previewValue = <<>>
    /\ isSwitchingCells = FALSE
    /\ pendingFocus = Null
    /\ lastSave = Null
    /\ lastUndo = Null
    /\ prevCells = cells
    /\ changedKeys = <<>>
    /\ displayValues = computeDisplayValues(cells, NotPassed(EmptyMap), NotPassed(<<>>))
    /\ previousValues = displayValues
    /\ op = "render"
    /\ graph = EmptyGraph
    /\ affected = <<>>
    /\ uIn \in UndoInputs
    /\ uOp = "none"
    /\ uOut = Null
    /\ lastIndex = 0
    /\ EvalIdle
    /\ StorageIdle
    /\ HookIdle

\* the next number is typed in the origin and submitted, the origin is
\* tapped and put in edition again
SubmitCount ==
    /\ originCount < MaxCount
    /\ saveCellIfChanged(0, 0, NatToStr(originCount + 1))
    /\ lastUndo' = Null
    /\ UNCHANGED <<graph, affected>>
    /\ UNCHANGED <<pvars, focused, isSwitchingCells, pendingFocus, meta>>
    /\ UNCHANGED <<evars, uvars, stvars, hvars>>

\* onUndo
UndoCount ==
    /\ onUndoWith(undoOnce(Napkin(cells, Present(history), meta)))
    /\ lastSave' = Null
    /\ UNCHANGED <<graph, affected>>
    /\ UNCHANGED <<pvars, focused, isSwitchingCells, pendingFocus>>
    /\ UNCHANGED <<evars, uvars, stvars, hvars>>

\* uOut = undoOnce(uIn)
UndoOnce ==
    /\ uOp = "none"
    /\ uOut' = undoOnce(uIn)
    /\ uOp' = "undoOnce"
    /\ lastSave' = Null
    /\ lastUndo' = Null
    /\ UNCHANGED <<uIn, lastIndex, history, prevCells>>
    /\ UNCHANGED <<focused, isSwitchingCells, pendingFocus, meta, before>>
    /\ UNCHANGED <<fvars, evars, pvars, stvars, hvars>>

HistoryNext ==
    \/ SubmitCount
    \/ UndoCount
    \/ UndoOnce

HistorySpec == HistoryInit /\ [][HistoryNext]_vars

\* ------------------------------------------------------------------------
\* storage.js: saveNapkin, deleteNapkin, renameNapkin, createEmptyNapkin.
\* Each operation of AsyncStorage takes effect in one step; another call may
\* run between two awaits of a call. withErrorHandling runs the function it
\* is given, and AsyncStorage does not fail.
\* ------------------------------------------------------------------------
\* number of calls of storage.js in a behaviour
MaxCalls == 3

\* the ids of the napkins that are saved, renamed and deleted
NapkinIds == { <<"8">>, <<"9">> }

\* the names given by renameNapkin
NapkinNames == { <<"N">> }

RECURSIVE insertByUpdatedAt(_, _)
\* e put before the first entry of the sorted array arr that is older
insertByUpdatedAt(e, arr) ==
    IF arr = <<>> THEN <<e>>
    ELSE IF e.updatedAt > Head(arr).updatedAt THEN <<e>> \o arr
    ELSE <<Head(arr)>> \o insertByUpdatedAt(e, Tail(arr))

RECURSIVE sortByUpdatedAt(_, _)
\* arr.sort((a, b) => b.updatedAt - a.updatedAt): the entries of arr from
\* the i-th on put into the sorted array acc
sortByUpdatedAt(arr, acc) ==
    IF arr = <<>> THEN acc
    ELSE sortByUpdatedAt(Tail(arr), insertByUpdatedAt(Head(arr), acc))

\* loadIndex that returns the array as it is stored
loadIndex_NoSort(arr) == arr

\* storage.js loadIndex: the stored array ([] when there is none), sorted
loadIndex(arr) == sortByUpdatedAt(arr, <<>>)

\* existingIdx = index.findIndex((n) => n.id === napkin.id), 0 for -1
findIndex(arr, id) ==
    IF \E i \in 1..Len(arr) : arr[i].id = id
    THEN CHOOSE i \in 1..Len(arr) :
             arr[i].id = id /\ \A j \in 1..(i - 1) : arr[j].id # id
    ELSE 0

\* if (existingIdx >= 0) index[existingIdx] = meta; else index.push(meta)
putMeta(arr, entry) ==
    IF findIndex(arr, entry.id) > 0
    THEN [arr EXCEPT ![findIndex(arr, entry.id)] = entry]
    ELSE Append(arr, entry)

\* index.filter((n) => n.id !== id)
filterId(arr, id) == SelectSeq(arr, LAMBDA n : n.id # id)

\* Date.now() of the next call: the calls are taken to start at different times
Clock == Cardinality({ i \in 1..Len(calls) : calls[i].now > 0 }) + 1

\* a call of storage.js: its function and arguments, the statement it is
\* at, the value of now and the index it loaded
NewCall(fn, id, name, pc, now) ==
    [fn |-> fn, id |-> id, name |-> name, pc |-> pc, now |-> now, idx |-> <<>>]

StorageInit ==
    /\ records = EmptyMap
    /\ index = <<>>
    /\ calls = <<>>
    /\ FormulaIdle
    /\ EvalIdle
    /\ PreviewIdle
    /\ ScreenIdle
    /\ UtilIdle
    /\ EditorIdle
    /\ HookIdle

\* what every step of storage.js leaves alone
StorageFrame == UNCHANGED <<fvars, evars, pvars, uvars, svars, nvars, hvars>>

\* saveNapkin(napkin) is called: key, now, toSave; the first await is reached
CallSaveNapkin(id, name) ==
    /\ Len(calls) < MaxCalls
    /\ calls' = Append(calls, NewCall("saveNapkin", id, name, "setItem", Clock))
    /\ UNCHANGED <<records, index>>
    /\ StorageFrame

\* createEmptyNapkin() is called: id = String(Date.now()), name 'Untitled',
\* then saveNapkin(napkin) up to its first await
CallCreateEmptyNapkin ==
    /\ Len(calls) < MaxCalls
    /\ calls' = Append(calls, NewCall("createEmptyNapkin", NatToStr(Clock),
                                      NewNapkinMeta.name, "setItem", Clock))
    /\ UNCHANGED <<records, index>>
    /\ StorageFrame

\* deleteNapkin(id) is called
CallDeleteNapkin(id) ==
    /\ Len(calls) < MaxCalls
    /\ calls' = Append(calls, NewCall("deleteNapkin", id, <<>>, "removeItem", 0))
    /\ UNCHANGED <<records, index>>
    /\ StorageFrame

\* renameNapkin(id, name) is called
CallRenameNapkin(id, name) ==
    /\ Len(calls) < MaxCalls
    /\ calls' = Append(calls, NewCall("renameNapkin", id, name, "getItem", 0))
    /\ UNCHANGED <<records, index>>
    /\ StorageFrame

\* renameNapkin: napkin = await loadNapkinById(id); if (!napkin) return;
\* napkin.name = name; saveNapkin(napkin) up to its first await
GetItem(i) ==
    /\ calls[i].pc = "getItem"
    /\ calls' = IF calls[i].id \in DOMAIN records
                THEN [calls EXCEPT ![i].pc = "setItem", ![i].now = Clock]
                ELSE [calls EXCEPT ![i].pc = "done"]
    /\ UNCHANGED <<records, index>>
    /\ StorageFrame

\* saveNapkin: await AsyncStorage.setItem(key, JSON.stringify(toSave))
SetItem(i) ==
    /\ calls[i].pc = "setItem"
    /\ records' = Put(records, calls[i].id, calls[i].name)
    /\ calls' = [calls EXCEPT ![i].pc = "loadIndex"]
    /\ UNCHANGED index
    /\ StorageFrame

\* deleteNapkin: await AsyncStorage.removeItem(`napkin:${id}`)
RemoveItem(i) ==
    /\ calls[i].pc = "removeItem"
    /\ records' = [k \in DOMAIN records \ {calls[i].id} |-> records[k]]
    /\ calls' = [calls EXCEPT ![i].pc = "loadIndex"]
    /\ UNCHANGED index
    /\ StorageFrame

\* index = await loadIndex()
LoadIndex(i) ==
    /\ calls[i].pc = "loadIndex"
    /\ calls' = [calls EXCEPT ![i].pc = "saveIndex", ![i].idx = loadIndex(index)]
    /\ UNCHANGED <<records, index>>
    /\ StorageFrame

\* the array a call writes: the loaded one without the id for deleteNapkin,
\* with the entry { id, name, updatedAt: now } put in it for saveNapkin
indexToSave(call) ==
    IF call.fn = "deleteNapkin" THEN filterId(call.idx, call.id)
    ELSE putMeta(call.idx, [id |-> call.id, name |-> call.name, updatedAt |-> call.now])

\* await saveIndex(index); the call returns
SaveIndex(i) ==
    /\ calls[i].pc = "saveIndex"
    /\ index' = indexToSave(calls[i])
    /\ calls' = [calls EXCEPT ![i].pc = "done"]
    /\ UNCHANGED records
    /\ StorageFrame

StorageNext ==
    \/ \E id \in NapkinIds : CallSaveNapkin(id, NewNapkinMeta.name)
    \/ CallCreateEmptyNapkin
    \/ \E id \in NapkinIds : CallDeleteNapkin(id)
    \/ \E id \in NapkinIds, name \in NapkinNames : CallRenameNapkin(id, name)
    \/ \E i \in 1..Len(calls) : GetItem(i)
    \/ \E i \in 1..Len(calls) : SetItem(i)
    \/ \E i \in 1..Len(calls) : RemoveItem(i)
    \/ \E i \in 1..Len(calls) : LoadIndex(i)
    \/ \E i \in 1..Len(calls) : SaveIndex(i)

StorageSpec == StorageInit /\ [][StorageNext]_vars

\* ------------------------------------------------------------------------
\* useAsyncOperation.js: one instance of the hook with allowConcurrent false
\* ------------------------------------------------------------------------
\* number of calls of operation in progress at a time
MaxRunning == 3

\* the option allowConcurrent, left to its default
allowConcurrent == FALSE

\* the arguments execute is called with
ExecuteArgs == { <<"a">>, <<"b">>, <<"c">> }

\* getUserFriendlyErrorMessage(error)
UserMessage == <<"m">>

\* the hook after its first render: execute was made with isLoading false
HookInit ==
    /\ isLoading = FALSE
    /\ execute = isLoading
    /\ error = Null
    /\ inProgress = <<>>
    /\ lastExecute = Null
    /\ FormulaIdle
    /\ EvalIdle
    /\ PreviewIdle
    /\ ScreenIdle
    /\ UtilIdle
    /\ EditorIdle
    /\ StorageIdle

\* what every step of the hook leaves alone
HookFrame == UNCHANGED <<fvars, evars, pvars, uvars, svars, nvars, stvars>>

\* the test of execute on the state isLoading instead of the value the
\* closure holds
alreadyLoading_CurrentState(captured, loading) == ~allowConcurrent /\ loading

\* !allowConcurrent && isLoading, isLoading being the value captured when
\* execute was made
alreadyLoading(captured, loading) == ~allowConcurrent /\ captured

\* execute(...args): return null when the test holds, else
\* setIsLoading(true), setError(null) and operation(...args) is started
Execute(args) ==
    /\ Len(inProgress) < MaxRunning
    /\ IF alreadyLoading(execute, isLoading)
       THEN /\ lastExecute' = [args |-> args, invoked |-> FALSE, outcome |-> "null"]
            /\ UNCHANGED <<isLoading, error, inProgress>>
       ELSE /\ isLoading' = TRUE
            /\ error' = Null
            /\ inProgress' = Append(inProgress, args)
            /\ lastExecute' = [args |-> args, invoked |-> TRUE, outcome |-> "pending"]
    /\ UNCHANGED execute
    /\ HookFrame

\* a render of the component: useCallback makes a new execute, which holds
\* the isLoading of this render, when one of its dependencies (operation,
\* onSuccess, onError, ...) changed, and returns the old one otherwise;
\* isLoading is not among the dependencies
RenderHook(depsChanged) ==
    /\ execute' = IF depsChanged THEN isLoading ELSE execute
    /\ execute' # execute
    /\ UNCHANGED <<isLoading, error, inProgress, lastExecute>>
    /\ HookFrame

\* inProgress without its i-th call
withoutCall(i) == SubSeq(inProgress, 1, i - 1) \o SubSeq(inProgress, i + 1, Len(inProgress))

\* the operation of the i-th call in progress resolves: onSuccess, return
\* result, finally setIsLoading(false)
Resolve(i) ==
    /\ i \in 1..Len(inProgress)
    /\ inProgress' = withoutCall(i)
    /\ isLoading' = FALSE
    /\ lastExecute' = [args |-> inProgress[i], invoked |-> TRUE, outcome |-> "result"]
    /\ UNCHANGED <<execute, error>>
    /\ HookFrame

\* the operation of the i-th call in progress rejects: setError, onError,
\* throw error, finally setIsLoading(false)
Reject(i) ==
    /\ i \in 1..Len(inProgress)
    /\ inProgress' = withoutCall(i)
    /\ isLoading' = FALSE
    /\ error' = UserMessage
    /\ lastExecute' = [args |-> inProgress[i], invoked |-> TRUE, outcome |-> "thrown"]
    /\ UNCHANGED execute
    /\ HookFrame

HookNext ==
    \/ \E args \in ExecuteArgs : Execute(args)
    \/ \E depsChanged \in BOOLEAN : RenderHook(depsChanged)
    \/ \E i \in 1..MaxRunning : Resolve(i)
    \/ \E i \in 1..MaxRunning : Reject(i)

HookSpec == HookInit /\ [][HookNext]_vars

\* ------------------------------------------------------------------------
\* Vocabulary of the properties
\* ------------------------------------------------------------------------
\* the cell at key a is a formula whose text holds a reference to the coordinate of b
References(c, a, b) ==
    /\ HasKey(c, a)
    /\ IsFormula(c.cell[a].content)
    /\ \E ref \in Range(extractRefs(Tail(c.cell[a].content))) :
          LET xy == cellRefToXY(ref)
          IN  xy # Null /\ coordKey(xy.x, xy.y) = b

RECURSIVE ReferencedFrom(_, _)
\* the keys of S and every key reached from them along references
ReferencedFrom(c, S) ==
    LET N == S \cup { b \in KeyUniverse : \E a \in S : References(c, a, b) }
    IN  IF N = S THEN S ELSE ReferencedFrom(c, N)

\* the cell at key a refers to itself, directly or through other cells
OnCycle(c, a) ==
    a \in ReferencedFrom(c, { b \in KeyUniverse : References(c, a, b) })

Acyclic(c) == \A a \in KeyUniverse : ~OnCycle(c, a)

RECURSIVE DependentsClosure(_, _)
\* the keys of S and every key that refers to one of them, directly or not
DependentsClosure(c, S) ==
    LET N == S \cup { a \in KeyUniverse : \E b \in S : References(c, a, b) }
    IN  IF N = S THEN S ELSE DependentsClosure(c, N)

\* the affected set of the last selective call, from the store alone
AffectedSet == DependentsClosure(cells, Range(changedKeys))

\* the full recompute of the current store
FullValues == computeAllDisplayValues(cells)

Diamond3Store == setCell(DiamondStore, GRID_MIN, GRID_MAX, <<"3">>)

\* ------------------------------------------------------------------------
\* C1
\* ------------------------------------------------------------------------
\* C1 as stated: on an acyclic store the selective recompute gives every key of
\* the affected set the value the full recompute has for that key.
C1_AsStated ==
    (op = "updated" /\ Acyclic(cells)) =>
        \A k \in AffectedSet :
            /\ k \in DOMAIN displayValues
            /\ k \in DOMAIN FullValues
            /\ displayValues[k] = FullValues[k]

\* C1 (amended): on an acyclic store, for every non-empty changedKeys and
\* whatever previousValues is, the selective recompute gives every affected key
\* for which the full recompute has an entry the value of that entry; an affected
\* key without one is a changed key that is not in the store and that no formula
\* refers to, and it gets the empty string.  In the diamond with A1 changed to 3,
\* the selective recompute from {A1} gives D1 the value 15 of the full recompute.
C1_SelectiveAgreesWithFull ==
    (op = "updated" /\ Acyclic(cells)) =>
        /\ \A k \in AffectedSet :
              /\ k \in DOMAIN displayValues
              /\ IF k \in DOMAIN FullValues
                 THEN displayValues[k] = FullValues[k]
                 ELSE /\ ~HasKey(cells, k)
                      /\ InSeq(changedKeys, k)
                      /\ \A a \in KeyUniverse : ~References(cells, a, k)
                      /\ displayValues[k] = <<>>
        /\ (cells = Diamond3Store /\ changedKeys = <<KeyA1>>) =>
              /\ displayValues[KeyD1] = <<"1","5">>
              /\ FullValues[KeyD1] = <<"1","5">>

\* the diamond, A1 changed from 2 to 3, recomputed selectively from {A1} on top
\* of the values of the old store
C1_Witness ==
    /\ op = "updated"
    /\ cells = Diamond3Store
    /\ previousValues = computeAllDisplayValues(DiamondStore)
    /\ changedKeys = <<KeyA1>>
    /\ displayValues[KeyD1] = <<"1","5">>

\* ------------------------------------------------------------------------
\* C2
\* ------------------------------------------------------------------------
\* C2: every formula cell on a reference cycle has the display value #ERROR
\* after a full recompute.
C2_CycleCellsAreError ==
    op = "all" =>
        \A k \in DOMAIN cells.cell :
            (IsFormula(cells.cell[k].content) /\ OnCycle(cells, k)) =>
                displayValues[k] = ERROR_VALUE

\* ------------------------------------------------------------------------
\* C4
\* ------------------------------------------------------------------------
\* C4: on every store, acyclic or not, the selective recompute gives every
\* affected key the value the full recompute gives it on the same store.
C4_SelectiveAgreesOnEveryStore ==
    (op = "updated" /\ \A k \in Range(changedKeys) : HasKey(cells, k)) =>
        \A k \in AffectedSet :
            /\ k \in DOMAIN displayValues
            /\ k \in DOMAIN FullValues
            /\ displayValues[k] = FullValues[k]

\* ------------------------------------------------------------------------
\* C3
\* ------------------------------------------------------------------------
\* the references written in the formula cells of the store, counted per cell
RECURSIVE TotalRefs(_, _)
TotalRefs(c, i) ==
    IF i > Len(c.order) THEN 0
    ELSE LET content == c.cell[c.order[i]].content
         IN  (IF IsFormula(content) THEN Len(extractRefs(Tail(content))) ELSE 0)
             + TotalRefs(c, i + 1)

NumFormulas(c) == Cardinality({ k \in DOMAIN c.cell : IsFormula(c.cell[k].content) })

\* a bound on the steps of one pass: every call is entered and returns once,
\* the loop of the pass makes one call per key, a formula body makes one call
\* per reference and is started at most once per key
PassStepBound ==
    2 + 3 * eTopCount + 3 * TotalRefs(cells, 1) + NumFormulas(cells)

\* C3: a pass of the evaluator terminates on every store, cyclic ones included:
\* it takes a bounded number of steps and its recursion is at most as deep as
\* there are formula cells; within one pass the formula body of each key is
\* started at most once, and only for a key that is neither memoised nor in
\* visiting.
C3_PassTerminatesBodyOnce ==
    /\ \A k \in KeyUniverse : eBodyStarts[k] <= 1
    /\ \A k \in KeyUniverse :
          (ePc = "loop" /\ TopFrame.key = k /\ TopFrame.i = 1 /\ TopFrame.scope = EmptyMap)
              => (k \in eVisiting /\ k \notin DOMAIN eMemo)
    /\ eSteps <= PassStepBound
    /\ Len(eStack) <= NumFormulas(cells)
    /\ \A i, j \in 1..Len(eStack) : i # j => eStack[i].key # eStack[j].key
    /\ ePc = "loop" => eStack # <<>>
    /\ ePc = "done" => (eStack = <<>> /\ eQueue = <<>>)

\* the pass over the two-cell cycle A1 '=B1', B1 '=A1+1' is over, and the body
\* of each of the two cells was evaluated once
C3_Witness ==
    /\ ePc = "done"
    /\ OnCycle(cells, KeyA1)
    /\ KeyB1 \in ReferencedFrom(cells, {KeyA1})
    /\ eBodyStarts[KeyA1] = 1
    /\ eBodyStarts[KeyB1] = 1

\* The pass taken statement by statement returns what the operators
\* computeAllDisplayValues and computeUpdatedDisplayValues return.
StepwiseAgrees ==
    ePc = "done" =>
        /\ eVisiting = {}
        /\ displayValues = IF eMode = "all" THEN computeAllDisplayValues(cells)
                           ELSE computeUpdatedDisplayValues(cells, previousValues, changedKeys)

\* ------------------------------------------------------------------------
\* C5
\* ------------------------------------------------------------------------
\* evaluating the expression of this formula content fails, whatever its operands are
Throws(content) ==
    MathEvaluate(Tail(content),
                 [r \in Range(extractRefs(Tail(content))) |-> DEFAULT_NUMERIC_VALUE]).thrown

ThrowingKey(c, k) ==
    HasKey(c, k) /\ IsFormula(c.cell[k].content) /\ Throws(c.cell[k].content)

StackKeys == { eStack[i].key : i \in 1..Len(eStack) }

\* the keys a finished pass went through: every key of the store for a full
\* recompute, the affected keys for a selective one
PassKeys == IF eMode = "all" THEN DOMAIN cells.cell ELSE Range(affected)

\* C5: when the expression of a formula cell k fails, memo[k] is #ERROR and k
\* has left visiting (visiting holds only keys in progress); the failure stops nothing:
\* the pass goes on to its end and its result has an entry for every key of the
\* pass (every key of the store for a full recompute), #ERROR for the failing ones.
C5_FailureIsAValue ==
    /\ \A k \in DOMAIN eMemo : ThrowingKey(cells, k) => eMemo[k] = ERROR_VALUE
    /\ \A k \in eVisiting : k \in StackKeys
    /\ ePc = "done" =>
          /\ eVisiting = {}
          /\ \A k \in PassKeys :
                /\ k \in DOMAIN displayValues
                /\ ThrowingKey(cells, k) => displayValues[k] = ERROR_VALUE

\* a full pass is over on a store whose A1 fails ('=2+') and whose B1 is '=A1+1':
\* A1 shows #ERROR and B1, evaluated after it, shows a number
C5_Witness ==
    /\ ePc = "done"
    /\ eMode = "all"
    /\ ThrowingKey(cells, KeyA1)
    /\ HasKey(cells, KeyB1)
    /\ displayValues[KeyA1] = ERROR_VALUE
    /\ displayValues[KeyB1] = <<"1">>

\* ------------------------------------------------------------------------
\* C6
\* ------------------------------------------------------------------------
\* the display value parses to no finite number
NotANumber(value) == ~parseFloat(StripCommas(value)).fin

\* the value of the formula content with every operand bound to 0
ValueWithZeroOperands(content) ==
    LET result == MathEvaluate(Tail(content),
                     [r \in Range(extractRefs(Tail(content))) |-> 0])
    IN  IF result.thrown THEN ERROR_VALUE ELSE StringOf(result)

\* C6: errors do not cascade.  After a full recompute a formula cell shows #ERROR
\* only if its own expression fails; and a formula cell that is on no cycle and
\* whose operands all show #ERROR or a text that is no finite number has the
\* value of its expression with these operands bound to 0.
C6_ErrorsDoNotCascade ==
    op = "all" =>
        \A k \in DOMAIN cells.cell :
            IsFormula(cells.cell[k].content) =>
                /\ displayValues[k] = ERROR_VALUE => Throws(cells.cell[k].content)
                /\ (/\ ~OnCycle(cells, k)
                    /\ \A r \in RefKeys(Tail(cells.cell[k].content)) :
                          NotANumber(displayValues[r]))
                   => displayValues[k] = ValueWithZeroOperands(cells.cell[k].content)

\* full recompute with A1 = '=2+' in error and B1 = '=A1+1' showing 1
C6_Witness ==
    /\ op = "all"
    /\ ThrowingKey(cells, KeyA1)
    /\ HasKey(cells, KeyB1)
    /\ cells.cell[KeyB1].content = <<"=","A","1","+","1">>
    /\ displayValues[KeyA1] = ERROR_VALUE
    /\ displayValues[KeyB1] = <<"1">>

\* ------------------------------------------------------------------------
\* C7
\* ------------------------------------------------------------------------
DanglingStore == Store4(<<"=","Z","9","9","*","2">>, Absent, Absent, Absent)

\* C7: a reference to a coordinate that is out of bounds or holds no cell
\* contributes 0 and is no error by itself: after a full recompute a formula
\* cell whose references all point at coordinates without a cell has the value of
\* its expression with the operands bound to 0, which is #ERROR only if the
\* expression itself fails; with A1 = '=Z99*2' alone in the store, A1 shows 0.
C7_DanglingReferenceIsZero ==
    op = "all" =>
        /\ \A k \in DOMAIN cells.cell :
              (/\ IsFormula(cells.cell[k].content)
               /\ \A r \in RefKeys(Tail(cells.cell[k].content)) : ~HasKey(cells, r))
              => /\ displayValues[k] = ValueWithZeroOperands(cells.cell[k].content)
                 /\ displayValues[k] = ERROR_VALUE => Throws(cells.cell[k].content)
        /\ cells = DanglingStore => displayValues[KeyA1] = <<"0">>

C7_Witness ==
    /\ op = "all"
    /\ cells = DanglingStore
    /\ ~withinBounds(cellRefToXY(<<"Z","9","9">>).x, cellRefToXY(<<"Z","9","9">>).y)
    /\ displayValues[KeyA1] = <<"0">>

\* ------------------------------------------------------------------------
\* C8
\* ------------------------------------------------------------------------
InMap(m, k, e) == k \in DOMAIN m /\ InSeq(m[k], e)

\* C8: in the graph of buildDependencyGraph(store), b is in dependencies[a] iff
\* a is in dependents[b] iff the cell a is a formula holding a reference that
\* resolves to the coordinate of b.
C8_GraphMatchesReferences ==
    op = "updated" =>
        \A a, b \in KeyUniverse :
            /\ InMap(graph.dependencies, a, b) <=> InMap(graph.dependents, b, a)
            /\ InMap(graph.dependencies, a, b) <=> References(cells, a, b)

\* the graph of a store with the diamond edges and the dangling edge A1 -> Z99
C8_Witness ==
    /\ op = "updated"
    /\ InMap(graph.dependents, KeyZ99, KeyA1)
    /\ InMap(graph.dependencies, KeyD1, KeyB1)
    /\ InMap(graph.dependents, KeyB1, KeyD1)

\* ------------------------------------------------------------------------
\* C9
\* ------------------------------------------------------------------------
RECURSIVE GraphClosure(_, _)
\* S and every key reached from S along the dependents edges of the graph g
GraphClosure(g, S) ==
    LET N == S \cup { a \in KeyUniverse : \E b \in S : InMap(g.dependents, b, a) }
    IN  IF N = S THEN S ELSE GraphClosure(g, N)

\* C9: getAffectedCells returns exactly the reflexive-transitive closure of
\* changedKeys under the dependents relation, each key once, and its worklist
\* loop ends also when the dependents relation has cycles.
C9_AffectedIsClosure ==
    op = "updated" =>
        /\ Range(affected) = GraphClosure(graph, Range(changedKeys))
        /\ \A i, j \in 1..Len(affected) : i # j => affected[i] # affected[j]

\* the chain A1 <- B1 <- C1 closed into a cycle by A1 = '=B1': from {A1} the
\* loop ended with the keys reached in two steps
C9_Witness ==
    /\ op = "updated"
    /\ changedKeys = <<KeyA1>>
    /\ InMap(graph.dependents, KeyB1, KeyA1)
    /\ InMap(graph.dependents, KeyA1, KeyB1)
    /\ InMap(graph.dependents, KeyB1, KeyC1)
    /\ ~InMap(graph.dependents, KeyA1, KeyC1)
    /\ InSeq(affected, KeyC1)

\* ------------------------------------------------------------------------
\* C10
\* ------------------------------------------------------------------------
\* C10: a selective recompute leaves the entry of every key outside the
\* affected set as it is in previousValues (absent if it was absent), stale or
\* not, and the previousValues object it was given is not modified.
C10_UnaffectedKept ==
    /\ previousValues \in PreviousChoices(cells)
    /\ op = "updated" =>
          \A k \in KeyUniverse \ AffectedSet :
              /\ k \in DOMAIN displayValues <=> k \in DOMAIN previousValues
              /\ k \in DOMAIN previousValues => displayValues[k] = previousValues[k]

\* a selective recompute from {B1} kept the stale entry of D1 and the stray
\* entry of E1, and gave no entry to the unaffected C1
C10_Witness ==
    /\ op = "updated"
    /\ previousValues = StrayValues
    /\ changedKeys = <<KeyB1>>
    /\ HasKey(cells, KeyC1)
    /\ KeyC1 \notin AffectedSet
    /\ KeyC1 \notin DOMAIN displayValues
    /\ ~HasKey(cells, KeyD1)
    /\ displayValues[KeyD1] = <<"7">>
    /\ displayValues[KeyE1] = <<"9">>
    /\ displayValues # FullValues

\* ------------------------------------------------------------------------
\* C11
\* ------------------------------------------------------------------------
\* C11: the graph of buildDependencyGraph(store) has a dependents and a
\* dependencies entry for every key of the store; for every reference that
\* resolves to a key K with no cell, dependents[K] exists and holds each formula
\* cell referring to K; and when K is passed in changedKeys (its cell present
\* or not), every formula cell referring to K directly or transitively is in
\* the affected set and has a recomputed entry, which on an acyclic store is
\* the value of the full recompute.
C11_DanglingDependentsKept ==
    op = "updated" =>
        /\ \A k \in DOMAIN cells.cell :
              k \in DOMAIN graph.dependents /\ k \in DOMAIN graph.dependencies
        /\ \A a, K \in KeyUniverse :
              (References(cells, a, K) /\ ~HasKey(cells, K))
                  => InMap(graph.dependents, K, a)
        /\ \A K \in Range(changedKeys) :
              \A a \in DependentsClosure(cells, {K}) \ {K} :
                  /\ InSeq(affected, a)
                  /\ a \in DOMAIN displayValues
                  /\ Acyclic(cells) => displayValues[a] = FullValues[a]

\* B1 holds no cell and both C1 = '=B1' and D1 = '=B1+C1' refer to it:
\* dependents[B1] holds both, and with B1 in changedKeys both were recomputed
\* over a stale previous entry of D1
C11_Witness ==
    /\ op = "updated"
    /\ ~HasKey(cells, KeyB1)
    /\ KeyB1 \in DOMAIN graph.dependents
    /\ graph.dependents[KeyB1] = <<KeyC1, KeyD1>>
    /\ changedKeys = <<KeyB1>>
    /\ previousValues = StrayValues
    /\ InSeq(affected, KeyD1)
    /\ displayValues[KeyD1] = FullValues[KeyD1]
    /\ displayValues[KeyD1] # previousValues[KeyD1]

\* ------------------------------------------------------------------------
\* C12
\* ------------------------------------------------------------------------
\* C12: for every in-bounds coordinate (x, y), cellRefToXY(xyToCellRef(x, y))
\* is exactly (x, y).
C12_RefRoundTrip ==
    uOp = "xyToCellRef.cellRefToXY" => uOut = [x |-> uIn.x, y |-> uIn.y]

\* the bottom-right corner, whose label AD30 has two letters and two digits,
\* came back from its label
C12_Witness ==
    /\ uOp = "xyToCellRef.cellRefToXY"
    /\ uIn.x = GRID_MAX
    /\ uIn.y = GRID_MIN
    /\ uOut = [x |-> GRID_MAX, y |-> GRID_MIN]

\* ------------------------------------------------------------------------
\* C13
\* ------------------------------------------------------------------------
\* C13: every result of cellRefToXY that is not null satisfies withinBounds:
\* a well-formed reference to a coordinate outside the grid gives null.
C13_ResultWithinBounds ==
    uOp = "cellRefToXY" => (uOut = Null \/ withinBounds(uOut.x, uOut.y))

\* ------------------------------------------------------------------------
\* C14
\* ------------------------------------------------------------------------
\* C14: coordKey is injective on the in-bounds coordinates, and parseCoordKey
\* gives back (x, y) from coordKey(x, y), negative coordinates included.
C14_CoordKeyInverse ==
    /\ uOp = "coordKey" =>
          \A x \in GRID_MIN..GRID_MAX, y \in GRID_MIN..GRID_MAX :
              coordKey(x, y) = uOut => (x = uIn.x /\ y = uIn.y)
    /\ uOp = "coordKey.parseCoordKey" =>
          uOut = [x |-> [nan |-> FALSE, val |-> uIn.x],
                  y |-> [nan |-> FALSE, val |-> uIn.y]]

\* the key of (-1, -12), which another pair of numbers would share without
\* the separator, was parsed back
C14_Witness ==
    /\ uOp = "coordKey.parseCoordKey"
    /\ uIn.x = 0 - 1
    /\ uIn.y = 0 - 12
    /\ uOut.x.val = 0 - 1
    /\ uOut.y.val = 0 - 12

\* ------------------------------------------------------------------------
\* C15
\* ------------------------------------------------------------------------
\* the n-th label (from 0) of the bijective base-26 numbering A..Z, AA..ZZ
ColumnLabel(n) ==
    IF n < 26 THEN <<UpperSeq[n + 1]>>
    ELSE <<UpperSeq[((n - 26) \div 26) + 1], UpperSeq[((n - 26) % 26) + 1]>>

LabelLetters(ref) == SubSeq(ref, 1, UpperRunLen(ref, 1))

LabelRow(ref) == DigitsToNat(SubSeq(ref, UpperRunLen(ref, 1) + 1, Len(ref)), 0)

RECURSIVE LexLess(_, _)
\* a before b in alphabetical order, for letter strings of the same length
LexLess(a, b) ==
    /\ a # <<>>
    /\ \/ UpperIndex(Head(a)) < UpperIndex(Head(b))
       \/ Head(a) = Head(b) /\ LexLess(Tail(a), Tail(b))

\* a before b in the order A..Z, AA, AB, ...
LabelLess(a, b) == Len(a) < Len(b) \/ (Len(a) = Len(b) /\ LexLess(a, b))

IsRefToken(t) ==
    \E k \in 1..(Len(t) - 1) :
        /\ \A i \in 1..k : IsUpper(t[i])
        /\ IsDigit(t[k + 1]) /\ t[k + 1] # "0"
        /\ \A i \in (k + 1)..Len(t) : IsDigit(t[i])

\* the value is a string that matches ^[A-Z]+[1-9][0-9]*$
MatchesRefPattern(v) == v.typeof = "string" /\ IsRefToken(v.str)

\* C16 as stated: cellRefToXY returns null for every value that is no string
\* matching ^[A-Z]+[1-9][0-9]*$, surrounding extra characters included.
C16_AsStated ==
    uOp = "cellRefToXY" => (~MatchesRefPattern(uIn.v) => uOut = Null)

\* C16: cellRefToXY never throws, and returns null for every value that is
\* absent, not a string, or a string whose text without its leading and
\* trailing white space does not match ^[A-Z]+[1-9][0-9]*$.
C16_MalformedIsNull ==
    uOp = "cellRefToXY" =>
        /\ uOut # Thrown
        /\ (uIn.v.typeof # "string" \/ ~IsRefToken(Trim(uIn.v.str))) => uOut = Null

\* a number was passed and null came back
C16_Witness ==
    /\ uOp = "cellRefToXY"
    /\ uIn.v = JsNumber(TRUE)
    /\ uOut = Null

\* ------------------------------------------------------------------------
\* C17
\* ------------------------------------------------------------------------
RECURSIVE WordTokens(_, _)
\* the maximal runs of letters, digits and underscores of s from index i on
WordTokens(s, i) ==
    IF i > Len(s) THEN <<>>
    ELSE IF ~IsWordChar(s[i]) THEN WordTokens(s, i + 1)
    ELSE <<SubSeq(s, i, i + WordRunLen(s, i) - 1)>> \o WordTokens(s, i + WordRunLen(s, i))

\* the word tokens of s that are references, each once, in order of first occurrence
ExpectedRefs(s) == Dedupe(SelectSeq(WordTokens(s, 1), IsRefToken), <<>>)

\* C17: extractRefs(formula) returns the A1-style tokens of the formula that
\* stand between word boundaries, each once, in order of first occurrence
\* (['A1', 'B2'] for 'SUM(A1,B2)+A1', nothing for 'A1B2' and 'xA1'), and a
\* second call on the same text returns the same (lastIndex is 0 after a call).
C17_ExtractRefsTokens ==
    /\ lastIndex = 0
    /\ uOp \in {"extractRefs", "extractRefs.extractRefs"} =>
          /\ uOut = ExpectedRefs(uIn.s)
          /\ uIn.s = <<"S","U","M","(","A","1",",","B","2",")","+","A","1">> => uOut = <<<<"A","1">>, <<"B","2">>>>
          /\ uIn.s \in { <<"A","1","B","2">>, <<"x","A","1">> } => uOut = <<>>

\* the second call on 'SUM(A1,B2)+A1'
C17_Witness ==
    /\ uOp = "extractRefs.extractRefs"
    /\ uIn.s = <<"S","U","M","(","A","1",",","B","2",")","+","A","1">>
    /\ uOut = <<<<"A","1">>, <<"B","2">>>>

\* ------------------------------------------------------------------------
\* C18
\* ------------------------------------------------------------------------
\* the key holds a cell whose content is not empty and does not start with '='
TextKey(c, k) ==
    HasKey(c, k) /\ c.cell[k].content # <<>> /\ ~IsFormula(c.cell[k].content)

\* the key holds no cell, or a cell with empty content
EmptyKey(c, k) == IF HasKey(c, k) THEN c.cell[k].content = <<>> ELSE TRUE

\* the keys the last call evaluated
EvaluatedKeys ==
    IF op = "all" THEN DOMAIN displayValues
    ELSE IF op = "updated" THEN Range(affected)
    ELSE {}

\* C18: a cell whose content does not start with '=' evaluates to its content
\* verbatim and has no edge in the dependency graph, whatever reference-shaped
\* tokens its text holds: its dependencies set is empty and it is in no
\* dependents set; a key with no cell or with empty content evaluates to the
\* empty string.
C18_TextIsVerbatim ==
    /\ \A k \in EvaluatedKeys :
          /\ TextKey(cells, k) => displayValues[k] = cells.cell[k].content
          /\ EmptyKey(cells, k) => displayValues[k] = <<>>
    /\ op = "updated" =>
          \A k \in DOMAIN cells.cell :
              ~IsFormula(cells.cell[k].content) =>
                  /\ graph.dependencies[k] = <<>>
                  /\ \A b \in DOMAIN graph.dependents : ~InSeq(graph.dependents[b], k)

\* A1 holds the text 'A1+B1' and B1 the formula '=A1+1': A1 shows its text,
\* has no dependency, and counts as 0 in B1
C18_Witness ==
    /\ op = "updated"
    /\ TextKey(cells, KeyA1)
    /\ cells.cell[KeyA1].content = <<"A","1","+","B","1">>
    /\ InSeq(affected, KeyA1)
    /\ displayValues[KeyA1] = <<"A","1","+","B","1">>
    /\ graph.dependencies[KeyA1] = <<>>
    /\ InMap(graph.dependents, KeyA1, KeyB1)
    /\ displayValues[KeyB1] = <<"1">>

\* ------------------------------------------------------------------------
\* C19
\* ------------------------------------------------------------------------
\* the last call returned the full recompute of the store: an entry for every
\* key of the store, computed from the store alone
ReturnedFullRecompute ==
    /\ displayValues = FullValues
    /\ \A k \in DOMAIN cells.cell : k \in DOMAIN displayValues

\* C19 as stated: when changedKeys is absent or empty, or previousValues is
\* absent, computeDisplayValues and computeUpdatedDisplayValues both return
\* the full recompute of the store.
C19_AsStated ==
    (\/ op \in {"dispatch", "updatedDirect"} /\ changedKeys = <<>>
     \/ op \in {"dispatchNoPrevious", "updatedNoPrevious"})
        => ReturnedFullRecompute

\* C19: when changedKeys is absent or empty, computeDisplayValues and
\* computeUpdatedDisplayValues return the full recompute of the store,
\* whatever previousValues is; when previousValues is absent,
\* computeDisplayValues returns the full recompute whatever changedKeys is.
C19_FullRecomputeFallback ==
    (\/ op \in {"dispatch", "updatedDirect", "updatedNoPrevious"} /\ changedKeys = <<>>
     \/ op = "dispatchNoPrevious")
        => ReturnedFullRecompute

\* computeDisplayValues without previousValues and with changedKeys = [A1] on
\* the diamond store, a stray map being at hand: all four values
C19_Witness ==
    /\ op = "dispatchNoPrevious"
    /\ changedKeys = <<KeyA1>>
    /\ cells = DiamondStore
    /\ previousValues = StrayValues
    /\ displayValues = FullValues
    /\ displayValues[KeyD1] = <<"1","0">>

\* ------------------------------------------------------------------------
\* C20
\* ------------------------------------------------------------------------
\* the store after the text in the editor is committed to the cell in edition
CommittedStore == setCell(cells, editingCell.x, editingCell.y, inputValue)

\* the value the cell in edition has in the full recompute of the committed store
CommittedValue ==
    computeAllDisplayValues(CommittedStore)[coordKey(editingCell.x, editingCell.y)]

\* C20: the preview evaluateContentForDisplay(store, x, y, c) is the value the
\* cell (x, y) has in computeAllDisplayValues(setCell(store, x, y, c)).
C20_PreviewIsCommittedValue ==
    editingCell # Null => previewValue = CommittedValue

\* the same, on the stores whose committed form has no reference cycle
PreviewAgreesOnAcyclic ==
    (editingCell # Null /\ Acyclic(CommittedStore)) => previewValue = CommittedValue

\* ------------------------------------------------------------------------
\* C21
\* ------------------------------------------------------------------------
\* the store passed to the call, and the store the call returned
ArgStore == uIn.heap[uIn.ref]
ResultStore == uOut.heap[uOut.ref]

\* the coordinates one orthogonal step away from (x, y)
Neighbours(x, y) == { <<x, y + 1>>, <<x + 1, y>>, <<x, y - 1>>, <<x - 1, y>> }

InBounds(p) == /\ GRID_MIN <= p[1] /\ p[1] <= GRID_MAX
               /\ GRID_MIN <= p[2] /\ p[2] <= GRID_MAX

\* C21: expandIfAllowed is all-or-nothing: when a neighbour of (x, y) is out
\* of bounds the key set is unchanged, otherwise all four neighbours are
\* present in the result; cells already present keep their contents.
C21_ExpansionAllOrNothing ==
    uOp = "expandIfAllowed" =>
        /\ IF \E p \in Neighbours(uIn.x, uIn.y) : ~InBounds(p)
           THEN DOMAIN ResultStore.cell = DOMAIN ArgStore.cell
           ELSE \A p \in Neighbours(uIn.x, uIn.y) :
                    coordKey(p[1], p[2]) \in DOMAIN ResultStore.cell
        /\ \A k \in DOMAIN ArgStore.cell :
               k \in DOMAIN ResultStore.cell /\ ResultStore.cell[k] = ArgStore.cell[k]

\* on the left edge, with the three neighbours that are within bounds
\* missing, nothing is added
C21_Witness ==
    /\ uOp = "expandIfAllowed"
    /\ uIn.x = GRID_MIN
    /\ hasCell(ArgStore, uIn.x, uIn.y)
    /\ ~hasCell(ArgStore, uIn.x, uIn.y + 1)
    /\ ~hasCell(ArgStore, uIn.x + 1, uIn.y)
    /\ ~hasCell(ArgStore, uIn.x, uIn.y - 1)
    /\ ResultStore = ArgStore

\* ------------------------------------------------------------------------
\* C22
\* ------------------------------------------------------------------------
\* blank content: '' or white space only
Blank(content) == \A i \in 1..Len(content) : content[i] = " "

\* the cells a and b are one orthogonal step apart
Adjacent(a, b) ==
    \/ a.x = b.x /\ (a.y = b.y + 1 \/ a.y = b.y - 1)
    \/ a.y = b.y /\ (a.x = b.x + 1 \/ a.x = b.x - 1)

\* the keys of the blank neighbours of (x, y) in c that have no non-blank
\* neighbour in c
IsolatedEmpties(c, x, y) ==
    { k \in DOMAIN c.cell :
        /\ Adjacent(c.cell[k], [x |-> x, y |-> y])
        /\ Blank(c.cell[k].content)
        /\ \A j \in DOMAIN c.cell :
               Adjacent(c.cell[j], c.cell[k]) => Blank(c.cell[j].content) }

\* C22: pruneAdjacentIsolatedEmpties(cells, x, y) removes exactly the blank
\* neighbours of (x, y) that have no non-blank neighbour, and keeps every
\* other cell unchanged.
C22_PruneRemovesIsolatedEmpties ==
    uOp = "pruneAdjacentIsolatedEmpties" =>
        /\ DOMAIN ResultStore.cell =
               DOMAIN ArgStore.cell \ IsolatedEmpties(ArgStore, uIn.x, uIn.y)
        /\ \A k \in DOMAIN ResultStore.cell : ResultStore.cell[k] = ArgStore.cell[k]

\* at the origin, the cell itself blank: the blank cell below is removed,
\* the blank cell to the right is kept by its non-blank neighbour (1, 1),
\* and the isolated blank cell two steps to the left is kept
C22_Witness ==
    /\ uOp = "pruneAdjacentIsolatedEmpties"
    /\ uIn.x = 0 /\ uIn.y = 0
    /\ hasCell(ArgStore, 0, 0) /\ ArgStore.cell[coordKey(0, 0)].content = <<>>
    /\ hasCell(ArgStore, 0, 0 - 1) /\ ~hasCell(ResultStore, 0, 0 - 1)
    /\ hasCell(ArgStore, 1, 0) /\ ArgStore.cell[coordKey(1, 0)].content = <<>>
    /\ hasCell(ResultStore, 1, 0)
    /\ ~hasCell(ArgStore, 0 - 1, 0)
    /\ hasCell(ArgStore, 0 - 2, 0) /\ hasCell(ResultStore, 0 - 2, 0)

C27_SymmetricGrid ==
    /\ \A k \in DOMAIN cells.cell :
           /\ GRID_BOUNDS_MIN <= cells.cell[k].x /\ cells.cell[k].x <= GRID_BOUNDS_MAX
           /\ GRID_BOUNDS_MIN <= cells.cell[k].y /\ cells.cell[k].y <= GRID_BOUNDS_MAX
    /\ GRID_MIN = 0 - GRID_MAX

\* ------------------------------------------------------------------------
\* C29
\* ------------------------------------------------------------------------
\* C29: saveCellIfChanged expands exactly when the previous content is blank
\* ('' or white space only) and the new one is not, and prunes exactly when
\* the previous content is not blank and the new one is, as shouldExpandGrid
\* and shouldPruneGrid say.
C29_GridChangeFollowsHelpers ==
    lastSave # Null =>
        /\ lastSave.change = "expand" <=>
               (lastSave.saved /\ Blank(lastSave.prevContent) /\ ~Blank(lastSave.newContent))
        /\ lastSave.change = "prune" <=>
               (lastSave.saved /\ ~Blank(lastSave.prevContent) /\ Blank(lastSave.newContent))
        /\ (Blank(lastSave.prevContent) /\ ~Blank(lastSave.newContent))
               = shouldExpandGrid(lastSave.prevContent, lastSave.newContent)
        /\ (~Blank(lastSave.prevContent) /\ Blank(lastSave.newContent))
               = shouldPruneGrid(lastSave.prevContent, lastSave.newContent)

\* ------------------------------------------------------------------------
\* C30
\* ------------------------------------------------------------------------
\* C30: every cell with non-blank content whose four neighbours are within
\* bounds has its four neighbours in the store.
C30_FilledCellHasRing ==
    \A k \in DOMAIN cells.cell :
        (/\ ~Blank(cells.cell[k].content)
         /\ \A p \in Neighbours(cells.cell[k].x, cells.cell[k].y) : InBounds(p))
            => \A p \in Neighbours(cells.cell[k].x, cells.cell[k].y) :
                   coordKey(p[1], p[2]) \in DOMAIN cells.cell

\* ------------------------------------------------------------------------
\* C28
\* ------------------------------------------------------------------------
RECURSIVE ReferencedInStore(_, _)
\* the keys of S and every key of the store reached from them along references
ReferencedInStore(c, S) ==
    LET N == S \cup { b \in DOMAIN c.cell : \E a \in S : References(c, a, b) }
    IN  IF N = S THEN S ELSE ReferencedInStore(c, N)

\* no cell of the store refers to itself, directly or through other cells
StoreAcyclic(c) ==
    \A a \in DOMAIN c.cell :
        a \notin ReferencedInStore(c, { b \in DOMAIN c.cell : References(c, a, b) })

C25_VisitingIsTheCallStack ==
    /\ eVisiting = StackKeys
    /\ \A k \in StackKeys : HasKey(cells, k) /\ IsFormula(cells.cell[k].content)
    /\ (ePc = "ret" /\ eStack = <<>>) => eVisiting = {}
    /\ ePc \in {"next", "done"} => eVisiting = {}

\* a selective pass on the cycle A1 '=B1', B1 '=A1+1': the top-level call for
\* a key of the cycle has returned, another key is still to come, and
\* visiting is empty
C25_Witness ==
    /\ eMode = "updated"
    /\ ePc = "ret"
    /\ eStack = <<>>
    /\ OnCycle(cells, eTopKey)
    /\ eBodyStarts[KeyA1] = 1 /\ eBodyStarts[KeyB1] = 1
    /\ eQueue # <<>>
    /\ eVisiting = {}

\* ------------------------------------------------------------------------
\* C26
\* ------------------------------------------------------------------------
\* C26: a cell whose content is exactly '=' is not a valid formula; it is
\* shown as plain content, or, when it reaches the evaluator, as #ERROR.
C26_EmptyFormulaBody ==
    \A k \in DOMAIN cells.cell :
        cells.cell[k].content = <<"=">> =>
            /\ ~isValidFormula(cells.cell[k].content)
            /\ k \in DOMAIN displayValues
            /\ displayValues[k] \in { <<"=">>, ERROR_VALUE }

\* ------------------------------------------------------------------------
\* C24
\* ------------------------------------------------------------------------
\* C24: no operation modifies a store it was given: after setCell,
\* expandIfAllowed, pruneAdjacentIsolatedEmpties, getDisplayValueForCell,
\* computeAllDisplayValues, buildDependencyGraph, computeUpdatedDisplayValues
\* and evaluateContentForDisplay every store object that existed before the
\* call has the keys and contents it had, and the first three return a
\* store object.
C24_StoreIsNotModified ==
    uOp # "none" =>
        /\ Len(uOut.heap) >= Len(uIn.heap)
        /\ \A r \in 1..Len(uIn.heap) : uOut.heap[r] = uIn.heap[r]
        /\ uOut.ref \in 1..Len(uOut.heap)

\* setCell returned a store that differs from its argument, in a new object
C24_Witness ==
    /\ uOp = "setCell"
    /\ uOut.ref # uIn.ref
    /\ ResultStore # ArgStore
    /\ uOut.heap[uIn.ref] = ArgStore
    /\ hasCell(ResultStore, uIn.x, uIn.y)
    /\ ResultStore.cell[coordKey(uIn.x, uIn.y)].content = <<"7">>
    /\ ~hasCell(ArgStore, uIn.x, uIn.y)

\* ------------------------------------------------------------------------
\* C31
\* ------------------------------------------------------------------------
\* C31: a submit that directly follows a submit, the input and the focus not
\* having changed in between, leaves the cells and the history as the first
\* submit left them.
C31_RepeatedSubmitChangesNothing ==
    [][(lastSave # Null /\ lastSave' # Null)
           => (cells' = cells /\ history' = history)]_vars

\* ------------------------------------------------------------------------
\* C32
\* ------------------------------------------------------------------------
\* C32: saveCellIfChanged called with the content the cell has (an absent
\* cell counting as '') returns false, pushes no snapshot, leaves the cells
\* as they are, runs no expansion or pruning and does not call onSaveNapkin.
C32_UnchangedContentChangesNothing ==
    [][(lastSave' # Null /\ lastSave'.prevContent = lastSave'.newContent)
           => /\ ~lastSave'.saved
              /\ ~lastSave'.onSaveNapkin
              /\ lastSave'.change = "none"
              /\ cells' = cells
              /\ history' = history
              /\ prevCells' = prevCells
              /\ displayValues' = displayValues]_vars

\* submit of '' on a focused cell that an undo removed from the store
C32_Witness ==
    /\ lastSave # Null
    /\ ~lastSave.saved
    /\ ~hasCell(cells, lastSave.x, lastSave.y)
    /\ lastSave.newContent = <<>>

\* ------------------------------------------------------------------------
\* C33
\* ------------------------------------------------------------------------
\* C33: the i-th snapshot of the history is the text of the cells that the
\* edit which pushed it found, and an undo puts back the cells found by the
\* last committed edit, removes exactly the last snapshot and leaves id,
\* name and nameIsCustom as they are; so n undos after n edits give the
\* cells found by the first of these edits.
C33_UndoRestoresCellsBeforeEdit ==
    [][/\ Len(history') = Len(before')
       /\ \A i \in 1..Len(history') : parse(history'[i]) = before'[i]
       /\ (lastUndo' # Null /\ lastUndo'.changed)
              => /\ cells' = before[Len(before)]
                 /\ history' = SubSeq(history, 1, Len(history) - 1)
                 /\ meta' = meta]_vars

\* an undo gave back the origin with its four neighbours after the origin
\* was filled, and an older snapshot is still in the history
C33_Witness ==
    /\ lastUndo # Null
    /\ lastUndo.changed
    /\ Len(history) = 1
    /\ Len(cells.order) = 5
    /\ prevContentOf(cells, 0, 0) = <<"5">>
    /\ meta.nameIsCustom

\* ------------------------------------------------------------------------
\* C34
\* ------------------------------------------------------------------------
\* C34: the history never holds more than 50 snapshots; a committed edit
\* made with 50 snapshots in the history drops the first one and appends the
\* text of the cells it found, the other 49 keeping their order; with fewer
\* than 50 it appends.
C34_HistoryKeepsLast50 ==
    [][/\ Len(history') <= 50
       /\ (lastSave' # Null /\ lastSave'.saved)
              => history' = IF Len(history) = 50
                            THEN Append(Tail(history), stringify(cells))
                            ELSE Append(history, stringify(cells))]_vars

\* 50 snapshots, the one of the new napkin dropped, the last one pushed by
\* the last edit
C34_Witness ==
    /\ Len(history) = 50
    /\ history[1] # stringify(createInitialCells)
    /\ lastSave # Null
    /\ lastSave.saved
    /\ history[50] = stringify(before[50])

\* ------------------------------------------------------------------------
\* C35
\* ------------------------------------------------------------------------
\* C35: undoOnce on a napkin whose history is missing or empty returns
\* changed = false and the napkin it was given, and onUndo on an empty
\* history calls neither setState nor onSaveNapkin and leaves the cells, the
\* history and the other fields as they are.
C35_UndoOfEmptyHistoryIsNothing ==
    [][/\ (uOp' = "undoOnce" /\ (~uIn'.history.present \/ uIn'.history.value = <<>>))
              => uOut' = [napkin |-> uIn', changed |-> FALSE, same |-> TRUE]
       /\ (lastUndo' # Null /\ history = <<>>)
              => /\ ~lastUndo'.changed
                 /\ lastUndo'.same
                 /\ ~lastUndo'.setState
                 /\ ~lastUndo'.onSaveNapkin
                 /\ cells' = cells
                 /\ history' = history
                 /\ meta' = meta
                 /\ displayValues' = displayValues]_vars

\* undoOnce was called on a napkin without history, and onUndo ran on an
\* empty history
C35_Witness ==
    /\ uOp = "undoOnce"
    /\ ~uIn.history.present
    /\ ~uOut.changed
    /\ lastUndo # Null
    /\ ~lastUndo.changed
    /\ history = <<>>

\* ------------------------------------------------------------------------
\* C36
\* ------------------------------------------------------------------------
\* C36: expandIfAllowed keeps every cell of the store it is given, with its
\* content and its place in the key order, and every key it adds is an
\* orthogonal neighbour of (x, y) that was missing, with content ''.
C36_ExpansionOnlyAddsEmptyNeighbours ==
    uOp = "expandIfAllowed" =>
        /\ \A k \in DOMAIN ArgStore.cell :
               k \in DOMAIN ResultStore.cell /\ ResultStore.cell[k] = ArgStore.cell[k]
        /\ SubSeq(ResultStore.order, 1, Len(ArgStore.order)) = ArgStore.order
        /\ \A k \in DOMAIN ResultStore.cell \ DOMAIN ArgStore.cell :
               \E p \in Neighbours(uIn.x, uIn.y) :
                   /\ k = coordKey(p[1], p[2])
                   /\ ResultStore.cell[k] = [x |-> p[1], y |-> p[2], content |-> <<>>]

\* the right neighbour holds '7' and stays, the top neighbour was missing
\* and is added
C36_Witness ==
    /\ uOp = "expandIfAllowed"
    /\ prevContentOf(ArgStore, uIn.x + 1, uIn.y) = <<"7">>
    /\ prevContentOf(ResultStore, uIn.x + 1, uIn.y) = <<"7">>
    /\ ~hasCell(ArgStore, uIn.x, uIn.y + 1)
    /\ hasCell(ResultStore, uIn.x, uIn.y + 1)

\* ------------------------------------------------------------------------
\* C37
\* ------------------------------------------------------------------------
\* the orders in which the keys of the store c can be enumerated
KeyOrders(c) ==
    { o \in [1..Len(c.order) -> Range(c.order)] :
        \A i, j \in 1..Len(c.order) : o[i] = o[j] => i = j }

\* C37: on a store without cycle, the full recompute gives the same map
\* whatever the order in which the keys are enumerated, and for every key
\* the value of getDisplayValueForCell called alone with a new memo is the
\* one of the map.
C37_FullRecomputeIgnoresKeyOrder ==
    (op = "all" /\ Acyclic(cells)) =>
        /\ \A o \in KeyOrders(cells) :
               computeAllDisplayValues([cells EXCEPT !.order = o]) = displayValues
        /\ \A k \in DOMAIN cells.cell :
               getDisplayValueForCell(cells, k, EmptyMap, {}).val = displayValues[k]

\* the diamond: D1 = B1 + C1 over A1 = 2, which some orders reach first
C37_Witness ==
    /\ op = "all"
    /\ cells = DiamondStore
    /\ Acyclic(cells)
    /\ displayValues[KeyD1] = <<"1","0">>
    /\ Cardinality(KeyOrders(cells)) = 24

\* ------------------------------------------------------------------------
\* C38
\* ------------------------------------------------------------------------
\* C38: the value a selective recompute gives to an affected key is the same
\* whatever map is passed as previousValues.
C38_AffectedValuesIgnorePrevious ==
    op = "updated" =>
        \A p \in PreviousChoices(cells) :
            \A k \in Range(affected) :
                computeUpdatedDisplayValues(cells, p, changedKeys)[k] = displayValues[k]

\* the call was given a map of another store with values for A1 and D1,
\* both keys are affected and got the values of this store
C38_Witness ==
    /\ op = "updated"
    /\ previousValues = StrayValues
    /\ KeyA1 \in Range(affected)
    /\ KeyD1 \in Range(affected)
    /\ displayValues[KeyA1] # StrayValues[KeyA1]
    /\ displayValues[KeyD1] # StrayValues[KeyD1]
    /\ displayValues[KeyE1] = StrayValues[KeyE1]

\* ------------------------------------------------------------------------
\* C39
\* ------------------------------------------------------------------------
\* every call of storage.js has returned
AllCallsDone == \A i \in 1..Len(calls) : calls[i].pc = "done"

\* the index has an entry for an id exactly when a record of that id is
\* stored, and no id twice
IndexMatchesRecords ==
    /\ \A id \in DOMAIN records : \E j \in 1..Len(index) : index[j].id = id
    /\ \A j \in 1..Len(index) : index[j].id \in DOMAIN records
    /\ \A j, k \in 1..Len(index) : index[j].id = index[k].id => j = k

\* C39: once every call of saveNapkin, createEmptyNapkin, renameNapkin and
\* deleteNapkin has returned, whatever way their steps were interleaved, the
\* index has an entry for an id exactly when the record of that id is
\* stored, and holds no id twice.
C39_IndexConsistentAfterCalls == AllCallsDone => IndexMatchesRecords

\* ------------------------------------------------------------------------
\* C40
\* ------------------------------------------------------------------------
\* C40: with allowConcurrent false at most one operation is in progress; a
\* call of execute made while one is in progress returns null and does not
\* invoke the operation; and when no call is in progress isLoading is false.
C40_OneOperationAtATime ==
    [][/\ ~allowConcurrent
       /\ Len(inProgress') <= 1
       /\ (inProgress # <<>> /\ lastExecute' # lastExecute /\ lastExecute'.outcome \in {"null", "pending"})
              => (lastExecute'.outcome = "null" /\ ~lastExecute'.invoked
                  /\ inProgress' = inProgress)
       /\ (inProgress' = <<>> => ~isLoading')]_vars

====
